---------------------------- MODULE Spec2Model ----------------------------
(***************************************************************************)
(* Model of the metrics retention engine of system-stats-dashboard         *)
(* (src/src/stats_history.rs): the StatsHistory ring, its iterator, the    *)
(* consolidation of a batch of AllStats, the two-file persistence and the  *)
(* update thread of UpdatingStatsHistory.                                  *)
(*                                                                         *)
(* Conventions:                                                            *)
(*  - Option<T>: None is <<>>, Some(x) is <<x>>.                           *)
(*  - Vec<T> is a sequence; Rust indices are 0-based and kept 0-based in   *)
(*    most_recent_index and the iterator index, so element i of a Vec v    *)
(*    is v[i + 1].                                                         *)
(*  - f32 values are pairs <<m, e>> standing for m * 2^e, and every f32    *)
(*    operation rounds to a 24-bit significand, ties to even.              *)
(***************************************************************************)
EXTENDS Integers, Sequences, FiniteSets, TLC

VARIABLES
    stats_history,      \* the StatsHistory behind Arc<Mutex<..>> (or the ring under test)
    ops,                \* history of the ring calls made so far: <<[op, arg]>>
    pc,                 \* position of the update thread in its loop
    lock,               \* holder of the Mutex: "free", "collector" or a reader
    recent_stats,       \* the batch buffer of the update thread
    new_stats,          \* Option<AllStats>: the sample of the current tick
    consolidated_stats, \* Option<AllStats>: the consolidated record of the current tick
    consolidation_limit,\* configuration: batch size
    persistence_config, \* configuration: HistoryPersistenceConfig
    cpu_sample_duration,\* configuration: time one sample takes
    update_frequency,   \* configuration: period of the loop
    disk,               \* the two log files of the persistence directory
    samples,            \* every sample taken so far, in order
    ticks,              \* number of completed loop iterations
    locked_history,     \* the history as it was when the update thread last took the lock
    reader_pc,          \* position of each reader
    reader_view         \* what each reader last copied out under the lock

vars == <<stats_history, ops, pc, lock, recent_stats, new_stats, consolidated_stats,
          consolidation_limit, persistence_config, cpu_sample_duration, update_frequency,
          disk, samples, ticks, locked_history, reader_pc, reader_view>>

collector_vars == <<pc, lock, recent_stats, new_stats, consolidated_stats,
                    consolidation_limit, persistence_config, cpu_sample_duration,
                    update_frequency, disk, samples, ticks,
                    locked_history, reader_pc, reader_view>>

\* ---------------------------------------------------------------- bounds
MaxCap == 3         \* largest history_size explored
MaxOps == 5         \* number of ring calls explored by SpecRing
MaxLimit == 3       \* largest consolidation_limit explored
MaxTicks == 4       \* number of update-thread iterations explored
MaxBatch == 4       \* longest batch handed to consolidate_all_stats by SpecConsolidate
MaxAppends == 3     \* number of persist_stats calls explored by SpecPersist
MaxLines == 2       \* most lines per log file explored by SpecLoad

\* ---------------------------------------------------------------- Option
None == <<>>
Some(x) == <<x>>
IsSome(o) == o # <<>>
Unwrap(o) == o[1]

Min(a, b) == IF a <= b THEN a ELSE b
Max(a, b) == IF a >= b THEN a ELSE b

\* The last n elements of s (all of s when it is shorter).
LastN(s, n) == IF Len(s) <= n THEN s ELSE SubSeq(s, Len(s) - n + 1, Len(s))

\* ---------------------------------------------------------------- f32
\* An f32 value is <<m, e>>, standing for m * 2^e, with m odd (or <<0, 0>>
\* for zero) and |m| < 2^24.  Every operation computes the exact result and
\* rounds it to the nearest value with a 24-bit significand, ties to even, as
\* IEEE 754 single precision does.  The exponent range is not limited: the
\* values handled stay far from overflow and from the subnormal range.
Abs(x) == IF x < 0 THEN -x ELSE x
Sign(x) == IF x < 0 THEN -1 ELSE 1
Pow2(k) == 2 ^ k

RECURSIVE BitLen(_)
BitLen(n) == IF n = 0 THEN 0 ELSE 1 + BitLen(n \div 2)

RECURSIVE Canon(_, _)
Canon(m, e) ==
    IF m = 0 THEN <<0, 0>>
    ELSE IF m % 2 = 0 THEN Canon(m \div 2, e + 1)
    ELSE <<m, e>>

\* `n as f32`, for an integer n that an f32 holds exactly
F(n) == Canon(n, 0)

\* The f32 nearest to sign * (mag + t) * 2^e, where t is 0 when ~sticky and
\* some value strictly between 0 and 1 when sticky.
RoundF32(sign, mag, e, sticky) ==
    LET len == BitLen(mag)
    IN  IF len <= 24 THEN Canon(sign * mag, e)
        ELSE LET k == len - 24
                 q == mag \div Pow2(k)
                 r == mag % Pow2(k)
                 half == Pow2(k - 1)
                 up == r > half \/ (r = half /\ (sticky \/ q % 2 = 1))
             IN  Canon(sign * (IF up THEN q + 1 ELSE q), e + k)

\* Position of the leading bit: |a| < 2^Top(a)
Top(a) == BitLen(Abs(a[1])) + a[2]

FNeg(a) == <<-a[1], a[2]>>

\* f32 addition
FAdd(a, b) ==
    IF a[1] = 0 THEN b
    ELSE IF b[1] = 0 THEN a
    ELSE
    LET big == IF Top(a) >= Top(b) THEN a ELSE b
        small == IF Top(a) >= Top(b) THEN b ELSE a
        e == Top(big) - 27
        mb == Abs(big[1]) * Pow2(big[2] - e)
        k == e - small[2]
        sticky == k > 0 /\ (k >= 25 \/ Abs(small[1]) % Pow2(k) # 0)
        ms == IF k <= 0 THEN Abs(small[1]) * Pow2(-k)
              ELSE IF k >= 25 THEN 0
              ELSE Abs(small[1]) \div Pow2(k)
        same == Sign(big[1]) = Sign(small[1])
        total == IF same THEN mb + ms
                 ELSE IF sticky THEN mb - ms - 1
                 ELSE mb - ms
    IN  RoundF32(IF total < 0 THEN -Sign(big[1]) ELSE Sign(big[1]), Abs(total), e, sticky)

\* f32 subtraction
FSub(a, b) == FAdd(a, FNeg(b))

\* f32 division by `n as f32`, for a small positive integer n
FDivN(a, n) ==
    IF a[1] = 0 THEN a
    ELSE LET s == 30 - BitLen(Abs(a[1]))
             m == Abs(a[1]) * Pow2(s)
         IN  RoundF32(Sign(a[1]), m \div n, a[2] - s, m % n # 0)

\* f32::round: nearest integer, halves away from zero
Round(a) ==
    IF a[2] >= 0 THEN a[1] * Pow2(a[2])
    ELSE IF -a[2] >= 26 THEN 0
    ELSE Sign(a[1]) * ((Abs(a[1]) + Pow2(-a[2] - 1)) \div Pow2(-a[2]))

\* `x.round() as usize` / `as u64`: a saturating cast, negative values give 0
RoundToUnsigned(a) == Max(0, Round(a))

\* ---------------------------------------------------------------- StatsHistory
StatsHistory_new(max_size) ==
    [max_size |-> max_size, stats |-> <<>>, most_recent_index |-> 0]

index_after(i, max_size) == (i + 1) % max_size

get_next_index(self) == index_after(self.most_recent_index, self.max_size)

\* Vec indexing `v[i]` panics when i is out of bounds.
InBounds(v, i) == i >= 0 /\ i < Len(v)

RECURSIVE push(_, _)
RECURSIVE update_most_recent_stats(_, _)

\* Variant: on a history with room left, appends instead of overwriting.
update_most_recent_stats_appends(self, s) ==
    IF Len(self.stats) < self.max_size
    THEN [self EXCEPT !.stats = Append(self.stats, s),
                      !.most_recent_index = Len(self.stats)]
    ELSE [self EXCEPT !.stats[self.most_recent_index + 1] = s]

\* Variant: overwrites the first slot instead of the one at most_recent_index.
update_most_recent_stats_first_slot(self, s) ==
    IF self.stats = <<>>
    THEN push(self, s)
    ELSE [self EXCEPT !.stats[1] = s]

update_most_recent_stats(self, s) ==
    IF self.stats = <<>>
    THEN push(self, s)
    ELSE [self EXCEPT !.stats[self.most_recent_index + 1] = s]

\* Variant: a full ring overwrites the most recent entry without advancing.
push_no_advance(self, s) ==
    IF Len(self.stats) = self.max_size
    THEN update_most_recent_stats(self, s)
    ELSE [self EXCEPT !.stats = Append(self.stats, s),
                      !.most_recent_index = Len(self.stats)]

\* Variant: after an append, most_recent_index is the new length (no `- 1`).
push_index_is_len(self, s) ==
    IF Len(self.stats) = self.max_size
    THEN update_most_recent_stats(
             [self EXCEPT !.most_recent_index = get_next_index(self)], s)
    ELSE [self EXCEPT !.stats = Append(self.stats, s),
                      !.most_recent_index = Len(self.stats) + 1]

push(self, s) ==
    IF Len(self.stats) = self.max_size
    THEN update_most_recent_stats(
             [self EXCEPT !.most_recent_index = get_next_index(self)], s)
    ELSE [self EXCEPT !.stats = Append(self.stats, s),
                      !.most_recent_index = Len(self.stats)]

\* The indexed write of update_most_recent_stats is out of bounds.
update_most_recent_stats_panics(self) ==
    self.stats # <<>> /\ ~InBounds(self.stats, self.most_recent_index)

push_panics(self) ==
    /\ Len(self.stats) = self.max_size
    /\ ~InBounds(self.stats, get_next_index(self))

\* Variant: returns the last element of the Vec.
get_most_recent_stats_last(self) ==
    IF self.stats = <<>> THEN [panic |-> FALSE, value |-> None]
    ELSE [panic |-> FALSE, value |-> Some(self.stats[Len(self.stats)])]

\* [panic, value]: value is the Option<&AllStats> returned
get_most_recent_stats(self) ==
    IF self.stats = <<>> THEN [panic |-> FALSE, value |-> None]
    ELSE IF ~InBounds(self.stats, self.most_recent_index)
         THEN [panic |-> TRUE, value |-> None]
         ELSE [panic |-> FALSE, value |-> Some(self.stats[self.most_recent_index + 1])]

\* ---------------------------------------------------------------- iterator
into_iter(self) ==
    [index |-> IF Len(self.stats) = self.max_size THEN get_next_index(self) ELSE 0,
     done  |-> FALSE]

\* One call of StatsHistoryIterator::next: the iterator afterwards, the item
\* returned, and whether `stats[self.index]` panicked.
next(self, it) ==
    IF it.done THEN [it |-> it, item |-> None, panic |-> FALSE]
    ELSE IF ~InBounds(self.stats, it.index)
         THEN [it |-> it, item |-> None, panic |-> TRUE]
         ELSE [it |-> IF it.index = self.most_recent_index
                      THEN [it EXCEPT !.done = TRUE]
                      ELSE [it EXCEPT !.index = index_after(it.index, self.max_size)],
               item |-> Some(self.stats[it.index + 1]),
               panic |-> FALSE]

\* A `for stats in stats_history.into_iter()` loop: calls next until it returns
\* None.  status is "ok" when the loop ended, "panic" when next panicked and
\* "diverge" when next kept returning items for more than `fuel` calls.
RECURSIVE for_each(_, _, _, _)
for_each(self, it, acc, fuel) ==
    LET r == next(self, it)
    IN  IF r.panic THEN [status |-> "panic", items |-> acc]
        ELSE IF r.item = None THEN [status |-> "ok", items |-> acc]
        ELSE IF fuel = 0 THEN [status |-> "diverge", items |-> acc]
        ELSE for_each(self, r.it, Append(acc, Unwrap(r.item)), fuel - 1)

Iterate(self) == for_each(self, into_iter(self), <<>>, self.max_size + 1)

\* ---------------------------------------------------------------- AllStats
\* What the sampler can deliver on one call: every optional metric is either
\* unavailable (None) or a value.  Three profiles: two with every metric
\* present (different values, per-core lists of different lengths) and one
\* with every optional metric unavailable.
ProfileA ==
    [uptime_seconds |-> Some(50), boot_timestamp |-> Some(7),
     load_averages |-> Some([one_minute |-> F(1), five_minutes |-> F(2),
                             fifteen_minutes |-> F(3)]),
     per_logical_cpu_load_percent |-> Some(<<F(10), F(30)>>),
     aggregate_load_percent |-> Some(F(20)),
     temp_celsius |-> Some(F(40)),
     memory |-> Some([used_mb |-> 10, total_mb |-> 100]),
     filesystems |-> Some(<<"rootfs">>),
     interfaces |-> Some(<<"eth0">>),
     sockets |-> Some([tcp_in_use |-> 1, tcp_orphaned |-> 0, udp_in_use |-> 3,
                       tcp6_in_use |-> 2, udp6_in_use |-> 1])]

ProfileB ==
    [uptime_seconds |-> Some(60), boot_timestamp |-> Some(7),
     load_averages |-> Some([one_minute |-> F(2), five_minutes |-> F(2),
                             fifteen_minutes |-> F(5)]),
     per_logical_cpu_load_percent |-> Some(<<F(20)>>),
     aggregate_load_percent |-> Some(F(50)),
     temp_celsius |-> Some(F(41)),
     memory |-> Some([used_mb |-> 20, total_mb |-> 50]),
     filesystems |-> Some(<<>>),
     interfaces |-> Some(<<"eth0", "wlan0">>),
     sockets |-> Some([tcp_in_use |-> 2, tcp_orphaned |-> 1, udp_in_use |-> 3,
                       tcp6_in_use |-> 0, udp6_in_use |-> 4])]

ProfileNone ==
    [uptime_seconds |-> None, boot_timestamp |-> None, load_averages |-> None,
     per_logical_cpu_load_percent |-> None, aggregate_load_percent |-> None,
     temp_celsius |-> None, memory |-> None, filesystems |-> None,
     interfaces |-> None, sockets |-> None]

\* Some metrics unavailable, two cores like ProfileA with other values
ProfileC ==
    [uptime_seconds |-> Some(70), boot_timestamp |-> Some(7),
     load_averages |-> None,
     per_logical_cpu_load_percent |-> Some(<<F(25), F(5)>>),
     aggregate_load_percent |-> Some(F(35)),
     temp_celsius |-> None,
     memory |-> Some([used_mb |-> 30, total_mb |-> 80]),
     filesystems |-> Some(<<"rootfs", "data">>),
     interfaces |-> None,
     sockets |-> None]

Profiles == {ProfileA, ProfileB, ProfileNone}

\* AllStats::from: the metrics the sampler delivered, stamped with Local::now()
AllStats_from(p, now) ==
    [general |-> [uptime_seconds |-> p.uptime_seconds,
                  boot_timestamp |-> p.boot_timestamp,
                  load_averages |-> p.load_averages],
     cpu |-> [per_logical_cpu_load_percent |-> p.per_logical_cpu_load_percent,
              aggregate_load_percent |-> p.aggregate_load_percent,
              temp_celsius |-> p.temp_celsius],
     memory |-> p.memory,
     filesystems |-> p.filesystems,
     network |-> [interfaces |-> p.interfaces, sockets |-> p.sockets],
     collection_time |-> now]

\* ---------------------------------------------------------------- consolidation
\* Variant: every new value weighs one half, whatever its position.
updated_average_halves(self, new_value, n) == FAdd(self, FDivN(FSub(new_value, self), 2))

updated_average(self, new_value, n) == FAdd(self, FDivN(FSub(new_value, self), n))

update_averages(self, new_values, n) ==
    LET padded == IF Len(self) < Len(new_values)
                  THEN self \o [k \in 1..(Len(new_values) - Len(self)) |-> F(0)]
                  ELSE self
    IN  [k \in 1..Len(padded) |->
            IF k <= Len(new_values)
            THEN updated_average(padded[k], new_values[k], n)
            ELSE padded[k]]

\* Variant: the total of the entry at hand replaces the maximum.
updated_max_keeps_latest(self, new_value) == new_value

\* lines 159-161: if memory_stats.total_mb > max_total_mem { max_total_mem = .. }
updated_max(self, new_value) == IF new_value > self THEN new_value ELSE self

\* Variant: the temperature accumulator starts at 1.0.
ConsolidateStart_temp_from_one ==
    [average_one_min_load_average |-> F(0),
     average_five_min_load_average |-> F(0),
     average_fifteen_min_load_average |-> F(0),
     average_per_logical_cpu_loads |-> <<>>,
     average_aggregate_cpu_load |-> F(0),
     average_temp |-> F(1),
     average_mem_used |-> F(0),
     max_total_mem |-> 0,
     average_tcp_used |-> F(0),
     average_tcp_orphaned |-> F(0),
     average_udp_used |-> F(0),
     average_tcp6_used |-> F(0),
     average_udp6_used |-> F(0)]

\* The accumulators before the loop
ConsolidateStart ==
    [average_one_min_load_average |-> F(0),
     average_five_min_load_average |-> F(0),
     average_fifteen_min_load_average |-> F(0),
     average_per_logical_cpu_loads |-> <<>>,
     average_aggregate_cpu_load |-> F(0),
     average_temp |-> F(0),
     average_mem_used |-> F(0),
     max_total_mem |-> 0,
     average_tcp_used |-> F(0),
     average_tcp_orphaned |-> F(0),
     average_udp_used |-> F(0),
     average_tcp6_used |-> F(0),
     average_udp6_used |-> F(0)]

\* One iteration of the loop, for entry all_stats at 1-based position n
ConsolidateStep(a, all_stats, n) ==
    LET la == all_stats.general.load_averages
        pl == all_stats.cpu.per_logical_cpu_load_percent
        ag == all_stats.cpu.aggregate_load_percent
        tc == all_stats.cpu.temp_celsius
        me == all_stats.memory
        so == all_stats.network.sockets
    IN  [average_one_min_load_average |->
            IF IsSome(la)
            THEN updated_average(a.average_one_min_load_average, Unwrap(la).one_minute, n)
            ELSE a.average_one_min_load_average,
         average_five_min_load_average |->
            IF IsSome(la)
            THEN updated_average(a.average_five_min_load_average, Unwrap(la).five_minutes, n)
            ELSE a.average_five_min_load_average,
         average_fifteen_min_load_average |->
            IF IsSome(la)
            THEN updated_average(a.average_fifteen_min_load_average,
                                 Unwrap(la).fifteen_minutes, n)
            ELSE a.average_fifteen_min_load_average,
         average_per_logical_cpu_loads |->
            IF IsSome(pl)
            THEN update_averages(a.average_per_logical_cpu_loads, Unwrap(pl), n)
            ELSE a.average_per_logical_cpu_loads,
         average_aggregate_cpu_load |->
            IF IsSome(ag)
            THEN updated_average(a.average_aggregate_cpu_load, Unwrap(ag), n)
            ELSE a.average_aggregate_cpu_load,
         average_temp |->
            IF IsSome(tc)
            THEN updated_average(a.average_temp, Unwrap(tc), n)
            ELSE a.average_temp,
         average_mem_used |->
            IF IsSome(me)
            THEN updated_average(a.average_mem_used, F(Unwrap(me).used_mb), n)
            ELSE a.average_mem_used,
         max_total_mem |->
            IF IsSome(me)
            THEN updated_max(a.max_total_mem, Unwrap(me).total_mb)
            ELSE a.max_total_mem,
         average_tcp_used |->
            IF IsSome(so)
            THEN updated_average(a.average_tcp_used, F(Unwrap(so).tcp_in_use), n)
            ELSE a.average_tcp_used,
         average_tcp_orphaned |->
            IF IsSome(so)
            THEN updated_average(a.average_tcp_orphaned, F(Unwrap(so).tcp_orphaned), n)
            ELSE a.average_tcp_orphaned,
         average_udp_used |->
            IF IsSome(so)
            THEN updated_average(a.average_udp_used, F(Unwrap(so).udp_in_use), n)
            ELSE a.average_udp_used,
         average_tcp6_used |->
            IF IsSome(so)
            THEN updated_average(a.average_tcp6_used, F(Unwrap(so).tcp6_in_use), n)
            ELSE a.average_tcp6_used,
         average_udp6_used |->
            IF IsSome(so)
            THEN updated_average(a.average_udp6_used, F(Unwrap(so).udp6_in_use), n)
            ELSE a.average_udp6_used]

\* The loop over stats_list.iter().enumerate(), entries n..Len(stats_list)
RECURSIVE ConsolidateLoop(_, _, _)
ConsolidateLoop(a, stats_list, n) ==
    IF n > Len(stats_list) THEN a
    ELSE ConsolidateLoop(ConsolidateStep(a, stats_list[n], n), stats_list, n + 1)

\* Variant: the emptiness test is missing.
consolidate_all_stats_never_panics(stats_list) == FALSE

consolidate_all_stats_panics(stats_list) == stats_list = <<>>

\* Variant: the verbatim fields come from the first entry.
pop_takes_first(stats_list) == stats_list[1]

\* line 180: stats_list.pop().unwrap()
pop(stats_list) == stats_list[Len(stats_list)]

consolidate_all_stats(stats_list) ==
    IF stats_list = <<>> THEN [panic |-> TRUE]
    ELSE
    LET a == ConsolidateLoop(ConsolidateStart, stats_list, 1)
        last_stats == pop(stats_list)
    IN  [general |->
            [uptime_seconds |-> last_stats.general.uptime_seconds,
             boot_timestamp |-> last_stats.general.boot_timestamp,
             load_averages |->
                Some([one_minute |-> a.average_one_min_load_average,
                      five_minutes |-> a.average_five_min_load_average,
                      fifteen_minutes |-> a.average_fifteen_min_load_average])],
         cpu |->
            [per_logical_cpu_load_percent |-> Some(a.average_per_logical_cpu_loads),
             aggregate_load_percent |-> Some(a.average_aggregate_cpu_load),
             temp_celsius |-> Some(a.average_temp)],
         memory |-> Some([used_mb |-> RoundToUnsigned(a.average_mem_used),
                          total_mb |-> a.max_total_mem]),
         filesystems |-> last_stats.filesystems,
         network |->
            [interfaces |-> last_stats.network.interfaces,
             sockets |->
                Some([tcp_in_use |-> RoundToUnsigned(a.average_tcp_used),
                      tcp_orphaned |-> RoundToUnsigned(a.average_tcp_orphaned),
                      udp_in_use |-> RoundToUnsigned(a.average_udp_used),
                      tcp6_in_use |-> RoundToUnsigned(a.average_tcp6_used),
                      udp6_in_use |-> RoundToUnsigned(a.average_udp6_used)])],
         collection_time |-> last_stats.collection_time]

\* ---------------------------------------------------------------- persistence
\* The persistence directory: whether it exists, and the two log files, each
\* None (missing) or Some(contents).  The contents of a file are a sequence
\* of chunks [kind, of, len]: the JSON text of a record ("json"), a proper
\* prefix of such a text ("torn"), a newline ("nl"), a whitespace character
\* ("space") or text that is not JSON ("garbage"); len is the size in bytes.
EmptyDisk == [dir |-> FALSE, old |-> None, current |-> None]

\* serde_json values of Option: null, or the value itself
JsonNull == [json |-> "null"]
JsonOf(v) == [json |-> "value", v |-> v]
ser_option(o) == IF IsSome(o) THEN JsonOf(Unwrap(o)) ELSE JsonNull
de_option(j) == IF j.json = "null" THEN None ELSE Some(j.v)

\* #[derive(Serialize)] with rename_all = "camelCase"
to_json(stats) ==
    [general |->
        [uptimeSeconds |-> ser_option(stats.general.uptime_seconds),
         bootTimestamp |-> ser_option(stats.general.boot_timestamp),
         loadAverages |->
            IF IsSome(stats.general.load_averages)
            THEN LET la == Unwrap(stats.general.load_averages)
                 IN  JsonOf([oneMinute |-> la.one_minute,
                             fiveMinutes |-> la.five_minutes,
                             fifteenMinutes |-> la.fifteen_minutes])
            ELSE JsonNull],
     cpu |->
        [perLogicalCpuLoadPercent |-> ser_option(stats.cpu.per_logical_cpu_load_percent),
         aggregateLoadPercent |-> ser_option(stats.cpu.aggregate_load_percent),
         tempCelsius |-> ser_option(stats.cpu.temp_celsius)],
     memory |->
        IF IsSome(stats.memory)
        THEN JsonOf([usedMb |-> Unwrap(stats.memory).used_mb,
                     totalMb |-> Unwrap(stats.memory).total_mb])
        ELSE JsonNull,
     filesystems |-> ser_option(stats.filesystems),
     network |->
        [interfaces |-> ser_option(stats.network.interfaces),
         sockets |->
            IF IsSome(stats.network.sockets)
            THEN LET so == Unwrap(stats.network.sockets)
                 IN  JsonOf([tcpInUse |-> so.tcp_in_use,
                             tcpOrphaned |-> so.tcp_orphaned,
                             udpInUse |-> so.udp_in_use,
                             tcp6InUse |-> so.tcp6_in_use,
                             udp6InUse |-> so.udp6_in_use])
            ELSE JsonNull],
     collectionTime |-> stats.collection_time]

\* #[derive(Deserialize)] with rename_all = "camelCase"
from_json(j) ==
    [general |->
        [uptime_seconds |-> de_option(j.general.uptimeSeconds),
         boot_timestamp |-> de_option(j.general.bootTimestamp),
         load_averages |->
            IF j.general.loadAverages.json = "null" THEN None
            ELSE LET la == j.general.loadAverages.v
                 IN  Some([one_minute |-> la.oneMinute,
                           five_minutes |-> la.fiveMinutes,
                           fifteen_minutes |-> la.fifteenMinutes])],
     cpu |->
        [per_logical_cpu_load_percent |-> de_option(j.cpu.perLogicalCpuLoadPercent),
         aggregate_load_percent |-> de_option(j.cpu.aggregateLoadPercent),
         temp_celsius |-> de_option(j.cpu.tempCelsius)],
     memory |->
        IF j.memory.json = "null" THEN None
        ELSE Some([used_mb |-> j.memory.v.usedMb, total_mb |-> j.memory.v.totalMb]),
     filesystems |-> de_option(j.filesystems),
     network |->
        [interfaces |-> de_option(j.network.interfaces),
         sockets |->
            IF j.network.sockets.json = "null" THEN None
            ELSE LET so == j.network.sockets.v
                 IN  Some([tcp_in_use |-> so.tcpInUse,
                           tcp_orphaned |-> so.tcpOrphaned,
                           udp_in_use |-> so.udpInUse,
                           tcp6_in_use |-> so.tcp6InUse,
                           udp6_in_use |-> so.udp6InUse])],
     collection_time |-> j.collectionTime]

\* The size in bytes of the JSON text of a record: it grows with the
\* per-core list.
TextLen(stats) ==
    3 + (IF IsSome(stats.cpu.per_logical_cpu_load_percent)
         THEN Len(Unwrap(stats.cpu.per_logical_cpu_load_percent))
         ELSE 0)

\* serde_json::to_string(stats), as the chunk it writes
to_string(stats) == [kind |-> "json", of |-> to_json(stats), len |-> TextLen(stats)]

\* The first n bytes of that text, 0 < n < TextLen(stats)
torn(stats, n) == [kind |-> "torn", of |-> to_json(stats), len |-> n]

\* The newline of writeln!
Newline == [kind |-> "nl", of |-> JsonNull, len |-> 1]

\* The size of one record line: the text and its newline
LineLen(stats) == TextLen(stats) + Newline.len

RECURSIVE FileLen(_)
FileLen(chunks) == IF chunks = <<>> THEN 0 ELSE Head(chunks).len + FileLen(Tail(chunks))

\* Variant: the test is `>` instead of `>=`.
needs_rotation_strict(d, dir_size_limit_bytes) ==
    /\ IsSome(d.current)
    /\ FileLen(Unwrap(d.current)) > dir_size_limit_bytes \div 2

\* Variant: the limit is not halved.
needs_rotation_whole_limit(d, dir_size_limit_bytes) ==
    /\ IsSome(d.current)
    /\ FileLen(Unwrap(d.current)) >= dir_size_limit_bytes

\* current_stats_path.exists() && metadata()?.len() >= dir_size_limit_bytes / 2
needs_rotation(d, dir_size_limit_bytes) ==
    /\ IsSome(d.current)
    /\ FileLen(Unwrap(d.current)) >= dir_size_limit_bytes \div 2

\* After create_dir_all
with_dir(d) == [d EXCEPT !.dir = TRUE]

\* After rename(current, old)
rotated(d) == [d EXCEPT !.old = d.current, !.current = None]

\* After OpenOptions::new().create(true).append(true).open(current)
opened(d) == IF IsSome(d.current) THEN d ELSE [d EXCEPT !.current = Some(<<>>)]

\* After a write of chunks at the end of "current"
written(d, chunks) == [d EXCEPT !.current = Some(Unwrap(d.current) \o chunks)]

\* After the append of one line to "current" (created when missing)
appended(d, stats) == written(opened(d), <<to_string(stats), Newline>>)

\* persist_stats when every I/O call succeeds
persist_stats(stats, d, dir_size_limit_bytes) ==
    LET d1 == with_dir(d)
        d2 == IF needs_rotation(d1, dir_size_limit_bytes) THEN rotated(d1) ELSE d1
    IN  appended(d2, stats)

\* The lengths of the partial writes of the text that are told apart
TornLengths(stats) == {1, TextLen(stats) - 1}

\* What persist_stats leaves behind when an I/O call before the write
\* returns an error: the directory as it was (create_dir_all), unrotated
\* (metadata, rename), or rotated without the new line (open)
persist_stats_failed(stats, d, dir_size_limit_bytes) ==
    LET d1 == with_dir(d)
        d2 == IF needs_rotation(d1, dir_size_limit_bytes) THEN rotated(d1) ELSE d1
    IN  {d, d1, d2}

\* What persist_stats leaves behind when it stops at any other point, because
\* a write returned an error or because the process stopped: "current" opened
\* and nothing written, a part of the text written, or the text written and
\* no newline
persist_stats_torn(stats, d, dir_size_limit_bytes) ==
    LET d1 == with_dir(d)
        d2 == IF needs_rotation(d1, dir_size_limit_bytes) THEN rotated(d1) ELSE d1
        d3 == opened(d2)
    IN  {d3, written(d3, <<to_string(stats)>>)}
        \cup {written(d3, <<torn(stats, n)>>) : n \in TornLengths(stats)}

\* The possible results of persist_stats in the update thread and the
\* directory each leaves behind.  The errors are those of the calls before
\* the write; SpecPersist explores the interrupted writes.
persist_stats_outcomes(stats, d, dir_size_limit_bytes) ==
    {[result |-> "Ok", disk |-> persist_stats(stats, d, dir_size_limit_bytes)]}
    \cup {[result |-> "Err", disk |-> e] :
            e \in persist_stats_failed(stats, d, dir_size_limit_bytes)}

\* BufReader::lines: the chunks between newlines; what follows the last
\* newline is a line when it is not empty
RECURSIVE SplitLines(_, _, _)
SplitLines(chunks, line, acc) ==
    IF chunks = <<>> THEN (IF line = <<>> THEN acc ELSE Append(acc, line))
    ELSE IF Head(chunks).kind = "nl" THEN SplitLines(Tail(chunks), <<>>, Append(acc, line))
    ELSE SplitLines(Tail(chunks), Append(line, Head(chunks)), acc)

lines(chunks) == SplitLines(chunks, <<>>, <<>>)

\* str::trim: whitespace removed from both ends
RECURSIVE trim_start(_)
trim_start(line) ==
    IF line # <<>> /\ Head(line).kind = "space" THEN trim_start(Tail(line)) ELSE line

RECURSIVE trim_end(_)
trim_end(line) ==
    IF line # <<>> /\ line[Len(line)].kind = "space"
    THEN trim_end(SubSeq(line, 1, Len(line) - 1))
    ELSE line

trim(line) == trim_end(trim_start(line))

\* serde_json::from_str: Ok for exactly one JSON text, Err for anything else
from_str(trimmed) ==
    IF Len(trimmed) = 1 /\ trimmed[1].kind = "json"
    THEN [ok |-> TRUE, value |-> Some(from_json(trimmed[1].of))]
    ELSE [ok |-> FALSE, value |-> None]

\* Variant: a line that does not parse is skipped.
RECURSIVE add_lines_skips_malformed(_, _, _)
add_lines_skips_malformed(ls, k, stats) ==
    IF k > Len(ls) THEN [ok |-> TRUE, stats |-> stats]
    ELSE LET trimmed == trim(ls[k])
         IN  IF trimmed = <<>> \/ ~from_str(trimmed).ok
             THEN add_lines_skips_malformed(ls, k + 1, stats)
             ELSE add_lines_skips_malformed(ls, k + 1,
                                            Append(stats, Unwrap(from_str(trimmed).value)))

\* The loop of add_stats_from_file over the lines k.. of the file: blank lines
\* are skipped, the first line that does not parse ends it with the error
RECURSIVE add_lines(_, _, _)
add_lines(ls, k, stats) ==
    IF k > Len(ls) THEN [ok |-> TRUE, stats |-> stats]
    ELSE LET trimmed == trim(ls[k])
         IN  IF trimmed = <<>> THEN add_lines(ls, k + 1, stats)
             ELSE IF from_str(trimmed).ok
                  THEN add_lines(ls, k + 1, Append(stats, Unwrap(from_str(trimmed).value)))
                  ELSE [ok |-> FALSE, stats |-> stats]

\* Variant: a missing file is an error, as if it were opened unconditionally.
add_stats_from_file_missing_fails(file, stats) ==
    IF IsSome(file) THEN add_lines(lines(Unwrap(file)), 1, stats)
    ELSE [ok |-> FALSE, stats |-> stats]

\* add_stats_from_file: a missing file adds nothing.  Errors of open and
\* read are left out: the file system answers the loader.
add_stats_from_file(file, stats) ==
    IF IsSome(file) THEN add_lines(lines(Unwrap(file)), 1, stats)
    ELSE [ok |-> TRUE, stats |-> stats]

\* Variant: the history is built like an empty one, most_recent_index 0.
loaded_history_index_zero(stats) ==
    IF stats = <<>> THEN StatsHistory_new(1)
    ELSE [max_size |-> Len(stats), stats |-> stats, most_recent_index |-> 0]

\* The end of load_from: the history built from the records read
loaded_history(stats) ==
    IF stats = <<>> THEN StatsHistory_new(1)
    ELSE [max_size |-> Len(stats), stats |-> stats, most_recent_index |-> Len(stats) - 1]

\* load_from of a directory whose files are old and current: Err, or Ok with
\* a history
load_from_files(old, current) ==
    LET r1 == add_stats_from_file(old, <<>>)
    IN  IF ~r1.ok THEN [ok |-> FALSE, history |-> None]
        ELSE LET r2 == add_stats_from_file(current, r1.stats)
             IN  IF ~r2.ok THEN [ok |-> FALSE, history |-> None]
                 ELSE [ok |-> TRUE, history |-> Some(loaded_history(r2.stats))]

\* Variant: "current" is read before "old".
load_from_current_first(d) == load_from_files(d.current, d.old)

load_from(d) == load_from_files(d.old, d.current)

\* ---------------------------------------------------------------- the update thread
\* HistoryPersistenceConfig
Disabled == [enabled |-> FALSE, size_limit |-> 0]
Enabled(size_limit) == [enabled |-> TRUE, size_limit |-> size_limit]

\* The size limit the model runs with: rotation is due once "current" holds
\* SizeLimitUnits \div 2 bytes.
SizeLimitUnits == 10

\* What the sampler delivers to the update thread
CollectorProfiles == {ProfileA, ProfileNone}

Readers == {"reader"}

\* Durations, in seconds, the two Duration parameters are drawn from
Durations == {1, 2}

\* The state right after UpdatingStatsHistory::new, whatever the two durations
Constructed ==
    /\ stats_history \in {StatsHistory_new(c) : c \in 1..MaxCap}
    /\ ops = <<>>
    /\ pc = "sample"
    /\ lock = "free"
    /\ recent_stats = <<>>
    /\ new_stats = None
    /\ consolidated_stats = None
    /\ consolidation_limit \in 1..MaxLimit
    /\ persistence_config \in {Disabled, Enabled(SizeLimitUnits)}
    /\ disk = EmptyDisk
    /\ samples = <<>>
    /\ ticks = 0
    /\ locked_history = None
    /\ reader_pc = "idle"
    /\ reader_view = None

\* Spec starts from the configurations that respect the documented
\* precondition of new: cpu_sample_duration is less than update_frequency.
Init ==
    /\ Constructed
    /\ cpu_sample_duration = 1
    /\ update_frequency = 2

\* SpecAnyDurations starts from every pair of durations.
InitAnyDurations ==
    /\ Constructed
    /\ cpu_sample_duration \in Durations
    /\ update_frequency \in Durations

reader_vars == <<reader_pc, reader_view>>
config_vars == <<consolidation_limit, persistence_config, cpu_sample_duration,
                 update_frequency, ops>>

\* line 69: let new_stats = AllStats::from(&system, cpu_sample_duration)
Sample ==
    /\ pc = "sample"
    /\ ticks < MaxTicks
    /\ \E p \in CollectorProfiles :
          LET s == AllStats_from(p, ticks + 1)
          IN  /\ new_stats' = Some(s)
              /\ samples' = Append(samples, s)
    /\ pc' = "buffer"
    /\ UNCHANGED <<stats_history, lock, recent_stats, consolidated_stats, disk, ticks,
                   locked_history, reader_vars, config_vars>>

\* Variant: the threshold test is `>` instead of `>=`.
Buffer_threshold_exceeded ==
    /\ pc = "buffer"
    /\ recent_stats' = Append(recent_stats, Unwrap(new_stats))
    /\ pc' = IF Len(recent_stats') > consolidation_limit THEN "consolidate" ELSE "lock_live"
    /\ UNCHANGED <<stats_history, lock, new_stats, consolidated_stats, disk, samples, ticks,
                   locked_history, reader_vars, config_vars>>

\* lines 70, 72: recent_stats.push(new_stats.clone()); the threshold test
Buffer ==
    /\ pc = "buffer"
    /\ recent_stats' = Append(recent_stats, Unwrap(new_stats))
    /\ pc' = IF Len(recent_stats') >= consolidation_limit THEN "consolidate" ELSE "lock_live"
    /\ UNCHANGED <<stats_history, lock, new_stats, consolidated_stats, disk, samples, ticks,
                   locked_history, reader_vars, config_vars>>

\* lines 73, 74: let consolidated_stats = consolidate_all_stats(recent_stats)
Consolidate ==
    /\ pc = "consolidate"
    /\ ~consolidate_all_stats_panics(recent_stats)
    /\ consolidated_stats' = Some(consolidate_all_stats(recent_stats))
    /\ pc' = IF persistence_config.enabled THEN "persist" ELSE "lock_commit"
    /\ UNCHANGED <<stats_history, lock, recent_stats, new_stats, disk, samples, ticks,
                   locked_history, reader_vars, config_vars>>

\* Variant: an error of persist_stats skips the rest of the iteration.
Persist_error_skips_commit ==
    /\ pc = "persist"
    /\ \E o \in persist_stats_outcomes(Unwrap(consolidated_stats), disk,
                                       persistence_config.size_limit) :
          /\ disk' = o.disk
          /\ pc' = IF o.result = "Err" THEN "sleep" ELSE "lock_commit"
    /\ UNCHANGED <<stats_history, lock, recent_stats, new_stats, consolidated_stats,
                   samples, ticks, locked_history, reader_vars, config_vars>>

\* Variant: the raw sample is persisted instead of the consolidated record.
Persist_logs_raw ==
    /\ pc = "persist"
    /\ \E o \in persist_stats_outcomes(Unwrap(new_stats), disk,
                                       persistence_config.size_limit) :
          disk' = o.disk
    /\ pc' = "lock_commit"
    /\ UNCHANGED <<stats_history, lock, recent_stats, new_stats, consolidated_stats,
                   samples, ticks, locked_history, reader_vars, config_vars>>

\* lines 75-78: persist_stats(..), an error is printed and otherwise ignored
Persist ==
    /\ pc = "persist"
    /\ \E o \in persist_stats_outcomes(Unwrap(consolidated_stats), disk,
                                       persistence_config.size_limit) :
          disk' = o.disk
    /\ pc' = "lock_commit"
    /\ UNCHANGED <<stats_history, lock, recent_stats, new_stats, consolidated_stats,
                   samples, ticks, locked_history, reader_vars, config_vars>>

\* Variant: the threshold branch mutates the history without taking the lock.
LockCommit_no_lock ==
    /\ pc = "lock_commit"
    /\ locked_history' = Some(stats_history)
    /\ pc' = "replace_consolidated"
    /\ UNCHANGED <<stats_history, lock, recent_stats, new_stats, consolidated_stats, disk,
                   samples, ticks, reader_vars, config_vars>>

\* line 82: let mut history = update_thread_stats_history.lock().unwrap()
LockCommit ==
    /\ pc = "lock_commit"
    /\ lock = "free"
    /\ lock' = "collector"
    /\ locked_history' = Some(stats_history)
    /\ pc' = "replace_consolidated"
    /\ UNCHANGED <<stats_history, recent_stats, new_stats, consolidated_stats, disk,
                   samples, ticks, reader_vars, config_vars>>

\* Variant: the consolidated record is pushed instead of replacing the live entry.
ReplaceConsolidated_pushes ==
    /\ pc = "replace_consolidated"
    /\ ~push_panics(stats_history)
    /\ stats_history' = push(stats_history, Unwrap(consolidated_stats))
    /\ pc' = "push_new"
    /\ UNCHANGED <<lock, recent_stats, new_stats, consolidated_stats, disk, samples, ticks,
                   locked_history, reader_vars, config_vars>>

\* line 83: history.update_most_recent_stats(consolidated_stats)
ReplaceConsolidated ==
    /\ pc = "replace_consolidated"
    /\ ~update_most_recent_stats_panics(stats_history)
    /\ stats_history' = update_most_recent_stats(stats_history, Unwrap(consolidated_stats))
    /\ pc' = "push_new"
    /\ UNCHANGED <<lock, recent_stats, new_stats, consolidated_stats, disk, samples, ticks,
                   locked_history, reader_vars, config_vars>>

\* Variant: the first sample of the batch is pushed instead of the new one.
PushNew_pushes_first_of_batch ==
    /\ pc = "push_new"
    /\ ~push_panics(stats_history)
    /\ stats_history' = push(stats_history, recent_stats[1])
    /\ pc' = "unlock_commit"
    /\ UNCHANGED <<lock, recent_stats, new_stats, consolidated_stats, disk, samples, ticks,
                   locked_history, reader_vars, config_vars>>

\* line 84: history.push(new_stats)
PushNew ==
    /\ pc = "push_new"
    /\ ~push_panics(stats_history)
    /\ stats_history' = push(stats_history, Unwrap(new_stats))
    /\ pc' = "unlock_commit"
    /\ UNCHANGED <<lock, recent_stats, new_stats, consolidated_stats, disk, samples, ticks,
                   locked_history, reader_vars, config_vars>>

\* line 85: the guard is dropped at the end of the block
UnlockCommit ==
    /\ pc = "unlock_commit"
    /\ lock' = "free"
    /\ pc' = "reset"
    /\ UNCHANGED <<stats_history, recent_stats, new_stats, consolidated_stats, disk,
                   samples, ticks, locked_history, reader_vars, config_vars>>

\* Variant: the flushed buffer keeps the newest sample.
ResetBatch_keeps_newest ==
    /\ pc = "reset"
    /\ recent_stats' = <<Unwrap(new_stats)>>
    /\ pc' = "sleep"
    /\ UNCHANGED <<stats_history, lock, new_stats, consolidated_stats, disk, samples, ticks,
                   locked_history, reader_vars, config_vars>>

\* line 86: recent_stats = Vec::with_capacity(consolidation_limit.get())
ResetBatch ==
    /\ pc = "reset"
    /\ recent_stats' = <<>>
    /\ pc' = "sleep"
    /\ UNCHANGED <<stats_history, lock, new_stats, consolidated_stats, disk, samples, ticks,
                   locked_history, reader_vars, config_vars>>

\* line 88: let mut history = update_thread_stats_history.lock().unwrap()
LockLive ==
    /\ pc = "lock_live"
    /\ lock = "free"
    /\ lock' = "collector"
    /\ locked_history' = Some(stats_history)
    /\ pc' = "replace_live"
    /\ UNCHANGED <<stats_history, recent_stats, new_stats, consolidated_stats, disk,
                   samples, ticks, reader_vars, config_vars>>

\* Variant: below the threshold the sample is pushed instead of replacing the
\* live entry.
ReplaceLive_pushes ==
    /\ pc = "replace_live"
    /\ ~push_panics(stats_history)
    /\ stats_history' = push(stats_history, Unwrap(new_stats))
    /\ pc' = "unlock_live"
    /\ UNCHANGED <<lock, recent_stats, new_stats, consolidated_stats, disk, samples, ticks,
                   locked_history, reader_vars, config_vars>>

\* line 89: history.update_most_recent_stats(new_stats)
ReplaceLive ==
    /\ pc = "replace_live"
    /\ ~update_most_recent_stats_panics(stats_history)
    /\ stats_history' = update_most_recent_stats(stats_history, Unwrap(new_stats))
    /\ pc' = "unlock_live"
    /\ UNCHANGED <<lock, recent_stats, new_stats, consolidated_stats, disk, samples, ticks,
                   locked_history, reader_vars, config_vars>>

\* Variant: the guard outlives the else block, so the thread sleeps holding the lock.
UnlockLive_keeps_lock ==
    /\ pc = "unlock_live"
    /\ pc' = "sleep"
    /\ UNCHANGED <<stats_history, lock, recent_stats, new_stats, consolidated_stats, disk,
                   samples, ticks, locked_history, reader_vars, config_vars>>

\* line 90: the guard is dropped at the end of the else block
UnlockLive ==
    /\ pc = "unlock_live"
    /\ lock' = "free"
    /\ pc' = "sleep"
    /\ UNCHANGED <<stats_history, recent_stats, new_stats, consolidated_stats, disk,
                   samples, ticks, locked_history, reader_vars, config_vars>>

\* `update_frequency - cpu_sample_duration` on Duration panics when the result
\* would be negative
duration_sub_panics(a, b) == a < b

\* line 92: thread::sleep(update_frequency - cpu_sample_duration), then the
\* next iteration of the loop; a panic of the subtraction ends the thread
Sleep ==
    /\ pc = "sleep"
    /\ IF duration_sub_panics(update_frequency, cpu_sample_duration)
       THEN /\ pc' = "panicked"
            /\ UNCHANGED <<ticks, new_stats, consolidated_stats, locked_history>>
       ELSE /\ ticks' = ticks + 1
            /\ new_stats' = None
            /\ consolidated_stats' = None
            /\ locked_history' = None
            /\ pc' = "sample"
    /\ UNCHANGED <<stats_history, lock, recent_stats, disk, samples, reader_vars,
                   config_vars>>

thread_vars == <<stats_history, pc, recent_stats, new_stats, consolidated_stats, disk,
                 samples, ticks, locked_history, config_vars>>

\* A reader starts a request: it drops what the previous request copied, calls
\* lock() on the shared history and blocks until the lock is free
ReaderWait ==
    /\ reader_pc = "idle"
    /\ reader_pc' = "waiting"
    /\ reader_view' = None
    /\ UNCHANGED <<lock, thread_vars>>

\* The reader's lock() returns
ReaderLock ==
    /\ reader_pc = "waiting"
    /\ lock = "free"
    /\ lock' = "reader"
    /\ reader_pc' = "reading"
    /\ UNCHANGED <<reader_view, thread_vars>>

\* The reader copies out the most recent entry and releases the lock
ReaderRead ==
    /\ reader_pc = "reading"
    /\ ~get_most_recent_stats(stats_history).panic
    /\ reader_view' = get_most_recent_stats(stats_history).value
    /\ lock' = "free"
    /\ reader_pc' = "idle"
    /\ UNCHANGED thread_vars

Next ==
    \/ Sample
    \/ Buffer
    \/ Consolidate
    \/ Persist
    \/ LockCommit
    \/ ReplaceConsolidated
    \/ PushNew
    \/ UnlockCommit
    \/ ResetBatch
    \/ LockLive
    \/ ReplaceLive
    \/ UnlockLive
    \/ Sleep
    \/ ReaderWait
    \/ ReaderLock
    \/ ReaderRead

Spec == Init /\ [][Next]_vars

SpecAnyDurations == InitAnyDurations /\ [][Next]_vars

\* The steps of the update thread that wait for nothing, but for the call of
\* consolidate_all_stats
ThreadStep ==
    \/ Sample
    \/ Buffer
    \/ Persist
    \/ ReplaceConsolidated
    \/ PushNew
    \/ UnlockCommit
    \/ ResetBatch
    \/ ReplaceLive
    \/ UnlockLive
    \/ Sleep

\* Its two calls of lock()
ThreadLock == LockCommit \/ LockLive

\* The call of consolidate_all_stats returns: Consolidate is possible exactly
\* at pc = "consolidate" and leaves it, so weak fairness of that step is
\* that the thread is away from it again and again.
ConsolidateReturns == []<>(pc # "consolidate")

\* Fair scheduling: the update thread is a thread of its own, so its next
\* step is taken when it stays possible; a lock() that is possible again and
\* again is granted in the end; a reader that holds the lock releases it.
Fairness ==
    /\ WF_vars(ThreadStep)
    /\ ConsolidateReturns
    /\ SF_vars(ThreadLock)
    /\ WF_vars(ReaderRead)

SpecFair == Spec /\ Fairness

SpecAnyDurationsFair == SpecAnyDurations /\ Fairness

\* ---------------------------------------------------------------- the ring on its own
\* SpecRing drives one StatsHistory through every interleaving of push
\* (commit) and update_most_recent_stats (replaceMostRecent), for every
\* capacity up to MaxCap.  Call number n passes a snapshot stamped with
\* collection_time n, so snapshots are told apart and ordered by it.
RingProfiles == {ProfileA, ProfileNone}

Idle ==
    /\ pc = "idle"
    /\ lock = "free"
    /\ recent_stats = <<>>
    /\ new_stats = None
    /\ consolidated_stats = None
    /\ consolidation_limit = 1
    /\ persistence_config = Disabled
    /\ cpu_sample_duration = 1
    /\ update_frequency = 2
    /\ disk = EmptyDisk
    /\ samples = <<>>
    /\ ticks = 0
    /\ locked_history = None
    /\ reader_pc = "idle"
    /\ reader_view = None

RingInit ==
    /\ stats_history \in {StatsHistory_new(c) : c \in 1..MaxCap}
    /\ ops = <<>>
    /\ Idle

RingPush ==
    /\ Len(ops) < MaxOps
    /\ ~push_panics(stats_history)
    /\ \E p \in RingProfiles :
          LET s == AllStats_from(p, Len(ops) + 1)
          IN  /\ stats_history' = push(stats_history, s)
              /\ ops' = Append(ops, [op |-> "push", arg |-> s])
    /\ UNCHANGED collector_vars

RingUpdateMostRecent ==
    /\ Len(ops) < MaxOps
    /\ ~update_most_recent_stats_panics(stats_history)
    /\ \E p \in RingProfiles :
          LET s == AllStats_from(p, Len(ops) + 1)
          IN  /\ stats_history' = update_most_recent_stats(stats_history, s)
              /\ ops' = Append(ops, [op |-> "update", arg |-> s])
    /\ UNCHANGED collector_vars

RingNext == RingPush \/ RingUpdateMostRecent

SpecRing == RingInit /\ [][RingNext]_vars

\* ---------------------------------------------------------------- consolidate on its own
\* SpecConsolidate calls consolidate_all_stats once on every batch of at most
\* MaxBatch snapshots drawn from ConsolidateProfiles.  The entry at position i
\* is stamped with collection_time i.  recent_stats holds the batch,
\* consolidated_stats the returned snapshot, and pc is "batch" before the
\* call, "done" after it returned and "panicked" when it panicked.
ConsolidateProfiles == {ProfileA, ProfileB, ProfileC, ProfileNone}

Batches ==
    UNION {{[i \in 1..n |-> AllStats_from(ps[i], i)] : ps \in [1..n -> ConsolidateProfiles]} :
           n \in 0..MaxBatch}

ConsolidateInit ==
    /\ stats_history = StatsHistory_new(1)
    /\ ops = <<>>
    /\ pc = "batch"
    /\ lock = "free"
    /\ recent_stats \in Batches
    /\ new_stats = None
    /\ consolidated_stats = None
    /\ consolidation_limit = 1
    /\ persistence_config = Disabled
    /\ cpu_sample_duration = 1
    /\ update_frequency = 2
    /\ disk = EmptyDisk
    /\ samples = <<>>
    /\ ticks = 0
    /\ locked_history = None
    /\ reader_pc = "idle"
    /\ reader_view = None

ConsolidateCall ==
    /\ pc = "batch"
    /\ IF consolidate_all_stats_panics(recent_stats)
       THEN /\ pc' = "panicked"
            /\ UNCHANGED consolidated_stats
       ELSE /\ pc' = "done"
            /\ consolidated_stats' = Some(consolidate_all_stats(recent_stats))
    /\ UNCHANGED <<stats_history, ops, lock, recent_stats, new_stats, consolidation_limit,
                   persistence_config, cpu_sample_duration, update_frequency, disk,
                   samples, ticks, locked_history, reader_pc, reader_view>>

ConsolidateNext == ConsolidateCall

SpecConsolidate == ConsolidateInit /\ [][ConsolidateNext]_vars

\* ---- vocabulary of the ring claims
Args(o) == [k \in 1..Len(o) |-> o[k].arg]
OnlyPushes == \A k \in 1..Len(ops) : ops[k].op = "push"
LastOp == ops[Len(ops)]
IsPushStep == Len(ops') = Len(ops) + 1 /\ ops'[Len(ops')].op = "push"
IsUpdateStep == Len(ops') = Len(ops) + 1 /\ ops'[Len(ops')].op = "update"
StepArg == ops'[Len(ops')].arg
IsFull(self) == Len(self.stats) = self.max_size
Times(items) == [k \in 1..Len(items) |-> items[k].collection_time]
StrictlyIncreasing(t) == \A k \in 1..(Len(t) - 1) : t[k] < t[k + 1]

\* ---------------------------------------------------------------- claims on the ring
\* C1: after more than max_size push calls (and nothing else) on an initially
\* empty history, the storage holds exactly max_size entries and iteration
\* yields the max_size most recently pushed snapshots in push order; a ring
\* filled by exactly max_size pushes yields all of them, so that one more push
\* drops exactly the oldest one and yields the new one last.
C1_KeepsMostRecentCommits ==
    LET c == stats_history.max_size
        r == Iterate(stats_history)
    IN  /\ (OnlyPushes /\ Len(ops) > c) =>
              /\ Len(stats_history.stats) = c
              /\ r = [status |-> "ok", items |-> LastN(Args(ops), c)]
        /\ (OnlyPushes /\ Len(ops) = c) =>
              r = [status |-> "ok", items |-> Args(ops)]

C1_Witness ==
    /\ OnlyPushes
    /\ stats_history.max_size >= 2
    /\ Len(ops) > stats_history.max_size + 1
    /\ Iterate(stats_history).items = LastN(Args(ops), stats_history.max_size)

\* C2 (as claimed): in every state reachable by push and
\* update_most_recent_stats, iteration ends normally after yielding exactly
\* Len(stats) snapshots, oldest first, starting at index 0 when the ring is
\* not full and at the index after most_recent_index when it is, and the last
\* snapshot yielded is the one at most_recent_index.
C2_IterateYieldsAllOldestFirst ==
    LET h == stats_history
        r == Iterate(h)
        start == IF IsFull(h) THEN index_after(h.most_recent_index, h.max_size) ELSE 0
    IN  /\ r.status = "ok"
        /\ Len(r.items) = Len(h.stats)
        /\ \A k \in 1..Len(r.items) :
              r.items[k] = h.stats[((start + k - 1) % h.max_size) + 1]
        /\ StrictlyIncreasing(Times(r.items))
        /\ r.items # <<>> => r.items[Len(r.items)] = h.stats[h.most_recent_index + 1]

\* C3 (as claimed): no ring operation fails in any reachable state; on an
\* empty history get_most_recent_stats returns None and iteration yields
\* nothing, neither of them panicking.
C3_NoRingOperationFails ==
    /\ ~push_panics(stats_history)
    /\ ~update_most_recent_stats_panics(stats_history)
    /\ ~get_most_recent_stats(stats_history).panic
    /\ Iterate(stats_history).status = "ok"
    /\ stats_history.stats = <<>> =>
          /\ get_most_recent_stats(stats_history) = [panic |-> FALSE, value |-> None]
          /\ Iterate(stats_history) = [status |-> "ok", items |-> <<>>]

\* C4: the ring's structural invariant: the storage never outgrows max_size,
\* max_size never changes, most_recent_index points into a non-empty storage,
\* and in a full ring the entry right after most_recent_index (circularly) is
\* the oldest entry held.
RingStructure ==
    LET h == stats_history
    IN  /\ h.max_size >= 1
        /\ Len(h.stats) <= h.max_size
        /\ h.stats # <<>> => (0 <= h.most_recent_index /\ h.most_recent_index < Len(h.stats))
        /\ IsFull(h) =>
              \A k \in 1..Len(h.stats) :
                  h.stats[index_after(h.most_recent_index, h.max_size) + 1].collection_time
                      <= h.stats[k].collection_time

C4_RingInvariant == [] RingStructure /\ [][stats_history'.max_size = stats_history.max_size]_vars

C4_Witness ==
    /\ IsFull(stats_history)
    /\ stats_history.max_size >= 2
    /\ stats_history.most_recent_index = 0
    /\ Len(ops) > stats_history.max_size
    /\ LastOp.op = "update"

\* C5 (as claimed): update_most_recent_stats never changes Len(stats); push
\* changes it by exactly 1 when the ring is not full and by 0 when it is.
C5_UpdateNeverChangesLen ==
    [][/\ IsUpdateStep => Len(stats_history'.stats) = Len(stats_history.stats)
       /\ IsPushStep =>
             Len(stats_history'.stats) =
                 IF IsFull(stats_history) THEN Len(stats_history.stats)
                 ELSE Len(stats_history.stats) + 1]_vars

\* C5 (amended): update_most_recent_stats leaves Len(stats) unchanged on a
\* non-empty history and grows it from 0 to 1 on an empty one; push changes
\* it by exactly 1 when the ring is not full and by 0 when it is.
C5_LenChanges ==
    [][/\ IsUpdateStep =>
             Len(stats_history'.stats) =
                 IF stats_history.stats = <<>> THEN 1 ELSE Len(stats_history.stats)
       /\ IsPushStep =>
             Len(stats_history'.stats) =
                 IF IsFull(stats_history) THEN Len(stats_history.stats)
                 ELSE Len(stats_history.stats) + 1]_vars

C5_Witness ==
    /\ Len(ops) >= 3
    /\ LastOp.op = "update"
    /\ ops[1].op = "update"
    /\ Len(stats_history.stats) = 2
    /\ ~IsFull(stats_history)

\* C6: update_most_recent_stats(s) on a non-empty history overwrites only the
\* entry at most_recent_index and leaves most_recent_index, max_size,
\* Len(stats) and every other entry alone; on an empty history it does what
\* push(s) does: the history then holds s alone, at index 0.
C6_UpdateFrame ==
    [][IsUpdateStep =>
         LET h == stats_history
             g == stats_history'
         IN  IF h.stats # <<>>
             THEN /\ g.most_recent_index = h.most_recent_index
                  /\ g.max_size = h.max_size
                  /\ Len(g.stats) = Len(h.stats)
                  /\ g.stats[h.most_recent_index + 1] = StepArg
                  /\ \A k \in 1..Len(h.stats) :
                        k # h.most_recent_index + 1 => g.stats[k] = h.stats[k]
             ELSE /\ g = [max_size |-> h.max_size, stats |-> <<StepArg>>,
                          most_recent_index |-> 0]
                  /\ g = push(h, StepArg)]_vars

C6_Witness ==
    /\ Len(ops) >= 4
    /\ LastOp.op = "update"
    /\ IsFull(stats_history)
    /\ stats_history.max_size >= 2
    /\ stats_history.most_recent_index = 0
    /\ stats_history.stats[1] = LastOp.arg

\* C7: get_most_recent_stats returns None exactly when neither push nor
\* update_most_recent_stats was ever called, and otherwise the snapshot passed
\* to the latest of these calls.
C7_MostRecentIsLatestArgument ==
    LET m == get_most_recent_stats(stats_history)
    IN  /\ ~m.panic
        /\ (m.value = None) <=> (ops = <<>>)
        /\ ops # <<>> => m.value = Some(LastOp.arg)

C7_Witness ==
    /\ Len(ops) > stats_history.max_size + 1
    /\ stats_history.max_size >= 2
    /\ stats_history.most_recent_index < stats_history.max_size - 1
    /\ get_most_recent_stats(stats_history).value = Some(LastOp.arg)

\* ---------------------------------------------------------------- claims on the update thread
\* The entries of a history in chronological order (nothing for an empty one)
Chrono(self) == IF self.stats = <<>> THEN <<>> ELSE Iterate(self).items

Front(s) == SubSeq(s, 1, Len(s) - 1)

InCommitSection == pc \in {"replace_consolidated", "push_new", "unlock_commit"}

\* C8 (as claimed): on a threshold tick the update thread, within one lock
\* hold, commits the consolidated record and then commits the raw sample: at
\* the end of the critical section the history is the one it locked with two
\* push calls applied.
C8_TwoCommits ==
    /\ InCommitSection => lock = "collector"
    /\ pc = "unlock_commit" =>
          stats_history = push(push(Unwrap(locked_history), Unwrap(consolidated_stats)),
                               Unwrap(new_stats))

\* C8 (amended): on a threshold tick the update thread, within one lock hold,
\* replaces the most recent entry by the consolidated record (appending it
\* only when the history is empty) and then commits the raw sample: at the end
\* of the critical section the history holds, in order, what it held when
\* locked without its most recent entry, then the consolidated record, then
\* the raw sample, cut to the max_size most recent entries.
C8_ReplaceThenCommit ==
    /\ InCommitSection => lock = "collector"
    /\ pc = "unlock_commit" =>
          LET before == Unwrap(locked_history)
              cons == Unwrap(consolidated_stats)
              raw == Unwrap(new_stats)
              kept == IF before.stats = <<>> THEN <<>> ELSE Front(Chrono(before))
          IN  /\ Iterate(stats_history) =
                    [status |-> "ok",
                     items |-> LastN(kept \o <<cons, raw>>, before.max_size)]
              /\ Len(stats_history.stats) =
                    Min(before.max_size, Max(Len(before.stats), 1) + 1)
              /\ stats_history.max_size = before.max_size
              /\ get_most_recent_stats(stats_history).value = Some(raw)

C8_Witness ==
    /\ pc = "unlock_commit"
    /\ lock = "collector"
    /\ Len(Unwrap(locked_history).stats) = 2
    /\ stats_history.max_size >= 3
    /\ Len(stats_history.stats) = 3
    /\ Unwrap(consolidated_stats) # Unwrap(new_stats)

\* C9: from an empty history with max_size >= 2, when the update thread has
\* completed exactly consolidation_limit iterations the history holds exactly
\* two entries: the consolidation of these samples, then the last raw sample.
C9_EndToEnd ==
    (ticks = consolidation_limit /\ pc = "sample" /\ stats_history.max_size >= 2) =>
        /\ Len(samples) = consolidation_limit
        /\ Len(stats_history.stats) = 2
        /\ Iterate(stats_history) =
              [status |-> "ok",
               items |-> <<consolidate_all_stats(samples), samples[Len(samples)]>>]

C9_Witness ==
    /\ ticks = 3
    /\ consolidation_limit = 3
    /\ pc = "sample"
    /\ stats_history.max_size >= 3
    /\ Len(stats_history.stats) = 2
    /\ stats_history.stats[1] = consolidate_all_stats(samples)
    /\ stats_history.stats[1] # samples[3]

\* C10: the update thread holds the lock only while it applies the in-memory
\* mutation: never while sampling, buffering, consolidating, persisting,
\* resetting the batch or sleeping, so that a reader waiting for the lock is
\* never waiting for a disk write.
C10_LockOnlyForMutation ==
    /\ lock = "collector" =>
          pc \in {"replace_consolidated", "push_new", "unlock_commit",
                  "replace_live", "unlock_live"}
    /\ pc \in {"sample", "buffer", "consolidate", "persist", "reset", "sleep",
               "lock_commit", "lock_live"} => lock # "collector"
    /\ (reader_pc = "waiting" /\ lock = "collector") => pc # "persist"

C10_Witness ==
    /\ pc = "persist"
    /\ ticks >= 1
    /\ lock = "reader"
    /\ reader_pc = "reading"
    /\ stats_history.stats # <<>>

\* The number of samples whose mutation of the shared history is complete
\* and released
Published ==
    IF pc \in {"buffer", "consolidate", "persist", "lock_commit", "replace_consolidated",
               "push_new", "unlock_commit", "lock_live", "replace_live", "unlock_live"}
    THEN Len(samples) - 1
    ELSE Len(samples)

\* C11: a reader that holds the lock never overlaps a critical section of the
\* update thread, so it never sees the state between the write of the
\* consolidated record and the push of the raw sample; once a sample has been
\* published, the most recent entry a reader sees, and the one it copies out,
\* is the latest published raw sample.
C11_ReadersSeeWholeTicks ==
    /\ reader_pc = "reading" =>
          /\ lock = "reader"
          /\ pc \notin {"replace_consolidated", "push_new", "unlock_commit",
                        "replace_live", "unlock_live"}
          /\ Published >= 1 =>
                get_most_recent_stats(stats_history) =
                    [panic |-> FALSE, value |-> Some(samples[Published])]
    /\ IsSome(reader_view) =>
          \E k \in 1..Len(samples) : reader_view = Some(samples[k])

C11_Witness ==
    /\ reader_pc = "reading"
    /\ lock = "reader"
    /\ pc = "lock_commit"
    /\ Published >= 2
    /\ consolidation_limit = 2
    /\ Len(stats_history.stats) >= 2
    /\ Unwrap(consolidated_stats) # Unwrap(new_stats)
    /\ stats_history.stats[1] \notin {samples[k] : k \in 1..Len(samples)}

\* One iteration of the update thread as a function of the history and the
\* batch: what the in-memory mutation of lines 70-90 amounts to when nothing
\* else intervenes
CommitTick(st, s, limit) ==
    LET batch == Append(st.batch, s)
    IN  IF Len(batch) >= limit
        THEN [h |-> push(update_most_recent_stats(st.h, consolidate_all_stats(batch)), s),
              batch |-> <<>>]
        ELSE [h |-> update_most_recent_stats(st.h, s), batch |-> batch]

\* C12: no failure of persist_stats ends the loop, and what an iteration does
\* to the in-memory history and to the batch is a function of the history
\* before it, the batch and the new sample alone: it is the same whether
\* persistence is disabled, the append succeeded or it failed.  The batch is
\* itself the samples taken since the last consolidation, so by induction on
\* the iterations the whole history is independent of persistence.
C12_PersistenceNeverChangesHistory ==
    /\ pc # "panicked"
    /\ pc = "sleep" =>
          /\ IsSome(locked_history)
          /\ LET n == Len(samples)
                  batch == SubSeq(samples, n - ((n - 1) % consolidation_limit), n - 1)
                  expected == CommitTick([h |-> Unwrap(locked_history), batch |-> batch],
                                         samples[n], consolidation_limit)
              IN  /\ n = ticks + 1
                  /\ stats_history = expected.h
                  /\ recent_stats = expected.batch

\* The second consolidation has been committed, persistence is enabled, and
\* only one of the two appends reached the disk.
C12_Witness ==
    /\ pc = "sleep"
    /\ persistence_config.enabled
    /\ consolidation_limit = 1
    /\ ticks = 1
    /\ Len(stats_history.stats) >= 2
    /\ get_most_recent_stats(stats_history).value = new_stats
    /\ disk.old = None
    /\ IsSome(disk.current)
    /\ Unwrap(disk.current) = <<to_string(Unwrap(consolidated_stats)), Newline>>

\* C13: when cpu_sample_duration >= update_frequency the update thread never
\* takes a sample, never writes the shared history and never fails while
\* running: the configuration is refused when the collector is constructed.
C13_BadDurationsRefusedAtStartup ==
    cpu_sample_duration >= update_frequency =>
        /\ samples = <<>>
        /\ stats_history.stats = <<>>
        /\ pc # "panicked"

\* ---------------------------------------------------------------- the log on its own
\* SpecPersist runs persist_stats up to MaxAppends times on an initially
\* empty directory, one file-system call at a time, and lets it stop after
\* any of them (an error returned by the call, or the process stopped and
\* restarted); at any moment one load_from may run, itself one file at a
\* time.  pc is the position of persist_stats, consolidated_stats the record
\* it was called with, reader_pc the position of load_from, recent_stats the
\* Vec load_from fills and stats_history the history it returns.  ops logs
\* the calls of persist_stats: the record, the directory before the call and
\* how the call ended.  Call number n passes a snapshot stamped with
\* collection_time n.
PersistProfiles == {ProfileA, ProfileNone}

PersistIdle ==
    /\ stats_history = StatsHistory_new(1)
    /\ lock = "free"
    /\ recent_stats = <<>>
    /\ new_stats = None
    /\ consolidated_stats = None
    /\ consolidation_limit = 1
    /\ cpu_sample_duration = 1
    /\ update_frequency = 2
    /\ samples = <<>>
    /\ ticks = 0
    /\ locked_history = None
    /\ reader_view = None

PersistInit ==
    /\ PersistIdle
    /\ ops = <<>>
    /\ pc = "idle"
    /\ reader_pc = "idle"
    /\ persistence_config = Enabled(SizeLimitUnits)
    /\ disk = EmptyDisk

persist_frame == <<stats_history, lock, recent_stats, new_stats, consolidation_limit,
                   persistence_config, cpu_sample_duration, update_frequency, samples,
                   ticks, locked_history, reader_pc, reader_view>>

Ended(result) == [ops EXCEPT ![Len(ops)].result = result]

\* persist_stats is called
PersistCall ==
    /\ pc = "idle"
    /\ Len(ops) < MaxAppends
    /\ \E p \in PersistProfiles :
          LET s == AllStats_from(p, Len(ops) + 1)
          IN  /\ consolidated_stats' = Some(s)
              /\ ops' = Append(ops, [arg |-> s, before |-> disk, result |-> "running"])
    /\ pc' = "create_dir"
    /\ UNCHANGED <<disk, persist_frame>>

\* lines 232-234: if !dir.exists() { create_dir_all(dir)? }
PersistCreateDir ==
    /\ pc = "create_dir"
    /\ disk' = with_dir(disk)
    /\ pc' = "rotate"
    /\ UNCHANGED <<ops, consolidated_stats, persist_frame>>

\* lines 240-244: the rotation test and the rename
PersistRotate ==
    /\ pc = "rotate"
    /\ disk' = IF needs_rotation(disk, persistence_config.size_limit)
               THEN rotated(disk) ELSE disk
    /\ pc' = "open"
    /\ UNCHANGED <<ops, consolidated_stats, persist_frame>>

\* lines 246-249: OpenOptions::new().create(true).append(true).open(..)
PersistOpen ==
    /\ pc = "open"
    /\ disk' = opened(disk)
    /\ pc' = "write_text"
    /\ UNCHANGED <<ops, consolidated_stats, persist_frame>>

\* line 250: the write of the JSON text, in one piece
PersistWriteText ==
    /\ pc = "write_text"
    /\ disk' = written(disk, <<to_string(Unwrap(consolidated_stats))>>)
    /\ pc' = "write_newline"
    /\ UNCHANGED <<ops, consolidated_stats, persist_frame>>

\* line 250: the write of the JSON text takes more than one write call; the
\* first has written a part of it
PersistWritePart ==
    /\ pc = "write_text"
    /\ \E n \in TornLengths(Unwrap(consolidated_stats)) :
          disk' = written(disk, <<torn(Unwrap(consolidated_stats), n)>>)
    /\ pc' = "write_rest"
    /\ UNCHANGED <<ops, consolidated_stats, persist_frame>>

\* line 250: the rest of the JSON text is written
PersistWriteRest ==
    /\ pc = "write_rest"
    /\ LET file == Unwrap(disk.current)
       IN  disk' = [disk EXCEPT !.current =
                        Some(SubSeq(file, 1, Len(file) - 1)
                             \o <<to_string(Unwrap(consolidated_stats))>>)]
    /\ pc' = "write_newline"
    /\ UNCHANGED <<ops, consolidated_stats, persist_frame>>

\* line 250: the newline of writeln!, then Ok(())
PersistWriteNewline ==
    /\ pc = "write_newline"
    /\ disk' = written(disk, <<Newline>>)
    /\ ops' = Ended("Ok")
    /\ pc' = "idle"
    /\ UNCHANGED <<consolidated_stats, persist_frame>>

\* persist_stats does not go further: the call at hand returned an error
\* (`?`), or the process stopped here and was started again
PersistStop ==
    /\ pc \in {"create_dir", "rotate", "open", "write_text", "write_rest", "write_newline"}
    /\ ops' = Ended("Stopped")
    /\ pc' = "idle"
    /\ UNCHANGED <<disk, consolidated_stats, persist_frame>>

load_frame == <<ops, pc, lock, new_stats, consolidated_stats, consolidation_limit,
                persistence_config, cpu_sample_duration, update_frequency, disk,
                samples, ticks, locked_history, reader_view>>

\* load_from is called: let mut stats = Vec::new()
LoadCall ==
    /\ reader_pc = "idle"
    /\ recent_stats' = <<>>
    /\ reader_pc' = "read_old"
    /\ UNCHANGED <<stats_history, load_frame>>

\* line 326: add_stats_from_file(old_stats_path, &mut stats)?
LoadOld ==
    /\ reader_pc = "read_old"
    /\ LET r == add_stats_from_file(disk.old, recent_stats)
       IN  IF r.ok
           THEN /\ recent_stats' = r.stats
                /\ reader_pc' = "read_current"
           ELSE /\ recent_stats' = <<>>
                /\ reader_pc' = "failed"
    /\ UNCHANGED <<stats_history, load_frame>>

\* lines 327-336: add_stats_from_file(current_stats_path, &mut stats)? and
\* the history built from stats
LoadCurrent ==
    /\ reader_pc = "read_current"
    /\ LET r == add_stats_from_file(disk.current, recent_stats)
       IN  IF r.ok
           THEN /\ recent_stats' = r.stats
                /\ stats_history' = loaded_history(r.stats)
                /\ reader_pc' = "loaded"
           ELSE /\ recent_stats' = <<>>
                /\ UNCHANGED stats_history
                /\ reader_pc' = "failed"
    /\ UNCHANGED load_frame

PersistNext ==
    \/ PersistCall
    \/ PersistCreateDir
    \/ PersistRotate
    \/ PersistOpen
    \/ PersistWriteText
    \/ PersistWritePart
    \/ PersistWriteRest
    \/ PersistWriteNewline
    \/ PersistStop
    \/ LoadCall
    \/ LoadOld
    \/ LoadCurrent

SpecPersist == PersistInit /\ [][PersistNext]_vars

\* ---------------------------------------------------------------- load_from on its own
\* SpecLoad calls load_from once on every directory whose two files are
\* missing or hold at most MaxLines lines each and MaxLines + 1 together,
\* each line a record, a blank line, a line of whitespace, a line that is
\* not JSON or a torn record; the last line of a file may lack its newline.
LoadRecords == {AllStats_from(ProfileA, 1), AllStats_from(ProfileNone, 2)}

Space == [kind |-> "space", of |-> JsonNull, len |-> 1]
Garbage == [kind |-> "garbage", of |-> JsonNull, len |-> 2]

LineTexts ==
    {<<to_string(r)>> : r \in LoadRecords}
    \cup {<<Space, to_string(r), Space>> : r \in {AllStats_from(ProfileA, 1)}}
    \cup {<<>>, <<Space>>, <<Garbage>>, <<torn(AllStats_from(ProfileA, 1), 1)>>}

RECURSIVE Joined(_)
Joined(ls) == IF ls = <<>> THEN <<>> ELSE Head(ls) \o <<Newline>> \o Joined(Tail(ls))

\* The contents of a file of n lines; the last newline is there or not
FilesOf(n) ==
    UNION {{Joined(ls), IF ls = <<>> THEN <<>> ELSE SubSeq(Joined(ls), 1, Len(Joined(ls)) - 1)} :
           ls \in [1..n -> LineTexts]}

Files(n) == {None} \cup {Some(f) : f \in UNION {FilesOf(k) : k \in 0..n}}

Directories(m) ==
    UNION {LET olds == Files(n)
               currents == Files(m + 1 - n)
           IN  {[dir |-> TRUE, old |-> o, current |-> c] : o \in olds, c \in currents} :
           n \in 1..m}

LoadInit ==
    /\ PersistIdle
    /\ ops = <<>>
    /\ pc = "idle"
    /\ reader_pc = "read_old"
    /\ persistence_config = Enabled(SizeLimitUnits)
    /\ disk \in Directories(MaxLines)

LoadNext == LoadOld \/ LoadCurrent

SpecLoad == LoadInit /\ [][LoadNext]_vars

\* ---------------------------------------------------------------- the dashboard context
\* DashboardContext::from_history and the chart builders.  A ChartContext is
\* modelled by its id, its datasets and its x_values, a DatasetContext by its
\* name, its line colour, its values and fill; titles, axis labels, axis
\* bounds and accompanying texts are left out.  Names that are not ASCII in
\* the source are given in English.

\* format_time: "%I:%M:%S %p" keeps the time of day and drops the date
format_time(time) == [time_of_day |-> time % 86400]

\* collection_time.to_rfc3339_opts(SecondsFormat::Millis, true)
to_rfc3339_opts(time) == [rfc3339 |-> time]

\* Option::unwrap_or
unwrap_or(o, default) == IF IsSome(o) THEN Unwrap(o) ELSE default

DatasetContext(name, line_color_code, values, fill) ==
    [name |-> name, line_color_code |-> line_color_code, values |-> values, fill |-> fill]

ChartContext(id, datasets, x_values) ==
    [id |-> id, datasets |-> datasets, x_values |-> x_values]

\* The x_values every builder collects in its loop
x_values_of(items) == [i \in 1..Len(items) |-> format_time(items[i].collection_time)]

\* One pass of `for (i, x) in vec.iter().enumerate() {
\* per_logical_cpu_values_flipped[i].push(*x) }`
flip_push(flipped, vec) ==
    [k \in 1..Len(flipped) |->
        IF k <= Len(vec) THEN Append(flipped[k], vec[k]) ELSE flipped[k]]

\* The loop over per_logical_cpu_values: indexing per_logical_cpu_values_flipped
\* panics at the first entry that has more values than there are datasets
RECURSIVE flip(_, _)
flip(vecs, flipped) ==
    IF vecs = <<>> THEN [panic |-> FALSE, flipped |-> flipped]
    ELSE IF Len(Head(vecs)) > Len(flipped) THEN [panic |-> TRUE, flipped |-> flipped]
    ELSE flip(Tail(vecs), flip_push(flipped, Head(vecs)))

\* The line colour of the per-core datasets
per_logical_cpu_line_color(dark_mode) == IF dark_mode THEN "#ffffff44" ELSE "#00000044"

\* build_cpu_charts: [status, charts]; status is "ok", or "panic" when the
\* iteration or the indexing panicked
build_cpu_charts(stats_history_arg, dark_mode) ==
    LET it == Iterate(stats_history_arg)
    IN  IF it.status # "ok" THEN [status |-> it.status, charts |-> <<>>]
        ELSE
        LET items == it.items
            aggregate_values ==
                [i \in 1..Len(items) |-> unwrap_or(items[i].cpu.aggregate_load_percent, F(0))]
            per_logical_cpu_values ==
                [i \in 1..Len(items) |->
                    unwrap_or(items[i].cpu.per_logical_cpu_load_percent, <<>>)]
            temp_values ==
                [i \in 1..Len(items) |-> unwrap_or(items[i].cpu.temp_celsius, F(0))]
            x_values == x_values_of(items)
            num_logical_cpus ==
                IF per_logical_cpu_values = <<>> THEN 0 ELSE Len(per_logical_cpu_values[1])
            flipped == flip(per_logical_cpu_values, [k \in 1..num_logical_cpus |-> <<>>])
        IN  IF flipped.panic THEN [status |-> "panic", charts |-> <<>>]
            ELSE
            [status |-> "ok",
             charts |->
                <<ChartContext("cpu-usage-chart",
                      <<DatasetContext("aggregate", "#ffcc00", aggregate_values, TRUE)>>
                      \o [k \in 1..Len(flipped.flipped) |->
                            DatasetContext(<<"CPU", k - 1>>,
                                           per_logical_cpu_line_color(dark_mode),
                                           flipped.flipped[k], FALSE)],
                      x_values),
                  ChartContext("cpu-temp-chart",
                      <<DatasetContext("celsius", "#990000", temp_values, TRUE)>>,
                      x_values)>>]

\* build_memory_chart
build_memory_chart(stats_history_arg) ==
    LET it == Iterate(stats_history_arg)
    IN  IF it.status # "ok" THEN [status |-> it.status, charts |-> <<>>]
        ELSE
        LET items == it.items
            memory_values ==
                [i \in 1..Len(items) |->
                    IF IsSome(items[i].memory) THEN F(Unwrap(items[i].memory).used_mb)
                    ELSE F(0)]
        IN  [status |-> "ok",
             charts |-> <<ChartContext("ram-chart",
                              <<DatasetContext("used memory", "#0055ff", memory_values, TRUE)>>,
                              x_values_of(items))>>]

\* build_load_average_chart
build_load_average_chart(stats_history_arg) ==
    LET it == Iterate(stats_history_arg)
    IN  IF it.status # "ok" THEN [status |-> it.status, charts |-> <<>>]
        ELSE
        LET items == it.items
            la(i) == items[i].general.load_averages
            one_min_values ==
                [i \in 1..Len(items) |->
                    IF IsSome(la(i)) THEN Unwrap(la(i)).one_minute ELSE F(0)]
            five_min_values ==
                [i \in 1..Len(items) |->
                    IF IsSome(la(i)) THEN Unwrap(la(i)).five_minutes ELSE F(0)]
            fifteen_min_values ==
                [i \in 1..Len(items) |->
                    IF IsSome(la(i)) THEN Unwrap(la(i)).fifteen_minutes ELSE F(0)]
        IN  [status |-> "ok",
             charts |-> <<ChartContext("load-average-chart",
                              <<DatasetContext("1 minute", "#ff00ff", one_min_values, FALSE),
                                DatasetContext("5 minutes", "#bb00ff", five_min_values, FALSE),
                                DatasetContext("15 minutes", "#7700ff", fifteen_min_values,
                                               FALSE)>>,
                              x_values_of(items))>>]

\* The total of one counter over the interfaces of an entry.  The snapshots
\* of the model carry the interfaces without their counters, so the total is
\* kept as the list it is taken over.
interfaces_total(counter, interfaces) == [total |-> counter, over |-> interfaces]

\* build_network_charts
build_network_charts(stats_history_arg) ==
    LET it == Iterate(stats_history_arg)
    IN  IF it.status # "ok" THEN [status |-> it.status, charts |-> <<>>]
        ELSE
        LET items == it.items
            total(counter) ==
                [i \in 1..Len(items) |->
                    IF IsSome(items[i].network.interfaces)
                    THEN interfaces_total(counter, Unwrap(items[i].network.interfaces))
                    ELSE F(0)]
            tcp_sockets_values ==
                [i \in 1..Len(items) |->
                    IF IsSome(items[i].network.sockets)
                    THEN F(Unwrap(items[i].network.sockets).tcp_in_use) ELSE F(0)]
            udp_sockets_values ==
                [i \in 1..Len(items) |->
                    IF IsSome(items[i].network.sockets)
                    THEN F(Unwrap(items[i].network.sockets).udp_in_use) ELSE F(0)]
            x_values == x_values_of(items)
        IN  [status |-> "ok",
             charts |->
                <<ChartContext("network-usage-chart",
                      <<DatasetContext("sent", "#44eeaa", total("sent_mb"), FALSE),
                        DatasetContext("received", "#44dd22", total("received_mb"), FALSE)>>,
                      x_values),
                  ChartContext("network-errors-chart",
                      <<DatasetContext("sent", "#ff8800", total("send_errors"), FALSE),
                        DatasetContext("Receive", "#ff4400", total("receive_errors"), FALSE)>>,
                      x_values),
                  ChartContext("sockets-chart",
                      <<DatasetContext("TCP", "#44eedd", tcp_sockets_values, FALSE),
                        DatasetContext("UDP", "#44bbdd", udp_sockets_values, FALSE)>>,
                      x_values)>>]

\* build_general_section, build_network_section, build_filesystems_section:
\* the names of the sections that are built
build_sections(most_recent_stats) ==
    (IF IsSome(most_recent_stats.general.uptime_seconds)
        \/ IsSome(most_recent_stats.general.boot_timestamp)
     THEN <<"general">> ELSE <<>>)
    \o (IF IsSome(most_recent_stats.network.sockets)
           \/ (/\ IsSome(most_recent_stats.network.interfaces)
               /\ Unwrap(most_recent_stats.network.interfaces) # <<>>)
        THEN <<"Network">> ELSE <<>>)
    \o (IF IsSome(most_recent_stats.filesystems) THEN <<"filesystems">> ELSE <<>>)

\* The context returned for a history without a most recent entry
NoDataContext(dark_mode) ==
    [dark_mode |-> dark_mode, charts |-> <<>>, sections |-> <<"no data">>,
     last_update_time |-> "N/A"]

\* The charts of a history with a most recent entry, built in the order of
\* lines 151-154; the first builder that panics ends the call
all_charts(stats_history_arg, dark_mode) ==
    LET cpu == build_cpu_charts(stats_history_arg, dark_mode)
        memory == build_memory_chart(stats_history_arg)
        load == build_load_average_chart(stats_history_arg)
        network == build_network_charts(stats_history_arg)
    IN  IF cpu.status # "ok" THEN cpu
        ELSE IF memory.status # "ok" THEN memory
        ELSE IF load.status # "ok" THEN load
        ELSE IF network.status # "ok" THEN network
        ELSE [status |-> "ok",
              charts |-> cpu.charts \o memory.charts \o load.charts \o network.charts]

\* Variant: the charts are built before the history is asked for its most
\* recent entry.
from_history_charts_first(stats_history_arg, dark_mode) ==
    LET charts == all_charts(stats_history_arg, dark_mode)
        r == get_most_recent_stats(stats_history_arg)
    IN  IF charts.status # "ok" \/ r.panic THEN [status |-> "panic", context |-> None]
        ELSE IF r.value = None THEN [status |-> "ok", context |-> Some(NoDataContext(dark_mode))]
        ELSE [status |-> "ok",
              context |-> Some([dark_mode |-> dark_mode,
                                charts |-> charts.charts,
                                sections |-> build_sections(Unwrap(r.value)),
                                last_update_time |->
                                    to_rfc3339_opts(Unwrap(r.value).collection_time)])]

\* DashboardContext::from_history: [status, context]
from_history(stats_history_arg, dark_mode) ==
    LET r == get_most_recent_stats(stats_history_arg)
    IN  IF r.panic THEN [status |-> "panic", context |-> None]
        ELSE IF r.value = None THEN [status |-> "ok", context |-> Some(NoDataContext(dark_mode))]
        ELSE
        LET most_recent_stats == Unwrap(r.value)
            charts == all_charts(stats_history_arg, dark_mode)
        IN  IF charts.status # "ok" THEN [status |-> charts.status, context |-> None]
            ELSE [status |-> "ok",
                  context |-> Some([dark_mode |-> dark_mode,
                                    charts |-> charts.charts,
                                    sections |-> build_sections(most_recent_stats),
                                    last_update_time |->
                                        to_rfc3339_opts(most_recent_stats.collection_time)])]

\* SpecDashboard calls from_history and build_cpu_charts once on every
\* history of capacity up to MaxCap that the ring operations can produce:
\* empty, partly filled, or full with the most recent entry in any slot.  The
\* entries are samples of DashboardProfiles, stamped 1, 2, .. oldest first.
\* reader_pc tells which call has returned or panicked and reader_view holds
\* what it returned.
DashboardProfiles == {ProfileA, ProfileB, ProfileNone}

\* The full history of capacity c whose entries, oldest first, are q and whose
\* most recent entry is in slot r
Wrapped(q, c, r) ==
    [max_size |-> c,
     stats |-> [j \in 1..c |-> q[((j - 1 - r - 1) % c) + 1]],
     most_recent_index |-> r]

DashboardHistories(c) ==
    {StatsHistory_new(c)}
    \cup UNION {{[max_size |-> c,
                  stats |-> [i \in 1..n |-> AllStats_from(ps[i], i)],
                  most_recent_index |-> n - 1] : ps \in [1..n -> DashboardProfiles]} :
                n \in 1..(c - 1)}
    \cup UNION {{Wrapped([i \in 1..c |-> AllStats_from(ps[i], i)], c, r) :
                    ps \in [1..c -> DashboardProfiles]} : r \in 0..(c - 1)}

DashboardInit ==
    /\ stats_history \in UNION {DashboardHistories(c) : c \in 1..MaxCap}
    /\ ops = <<>>
    /\ pc = "idle"
    /\ lock = "free"
    /\ recent_stats = <<>>
    /\ new_stats = None
    /\ consolidated_stats = None
    /\ consolidation_limit = 1
    /\ persistence_config = Disabled
    /\ cpu_sample_duration = 1
    /\ update_frequency = 2
    /\ disk = EmptyDisk
    /\ samples = <<>>
    /\ ticks = 0
    /\ locked_history = None
    /\ reader_pc = "idle"
    /\ reader_view = None

dashboard_frame == <<stats_history, ops, pc, lock, recent_stats, new_stats,
                     consolidated_stats, consolidation_limit, persistence_config,
                     cpu_sample_duration, update_frequency, disk, samples, ticks,
                     locked_history>>

\* DashboardContext::from_history(&stats_history, dark_mode)
FromHistory ==
    /\ reader_pc = "idle"
    /\ \E dark_mode \in BOOLEAN :
          LET r == from_history(stats_history, dark_mode)
          IN  IF r.status = "ok"
              THEN /\ reader_view' = r.context
                   /\ reader_pc' = "from_history_returned"
              ELSE /\ reader_view' = None
                   /\ reader_pc' = "from_history_panicked"
    /\ UNCHANGED dashboard_frame

\* build_cpu_charts(&stats_history, dark_mode)
BuildCpuCharts ==
    /\ reader_pc = "idle"
    /\ \E dark_mode \in BOOLEAN :
          LET r == build_cpu_charts(stats_history, dark_mode)
          IN  IF r.status = "ok"
              THEN /\ reader_view' = Some(r.charts)
                   /\ reader_pc' = "build_cpu_charts_returned"
              ELSE /\ reader_view' = None
                   /\ reader_pc' = "build_cpu_charts_panicked"
    /\ UNCHANGED dashboard_frame

DashboardNext == FromHistory \/ BuildCpuCharts

SpecDashboard == DashboardInit /\ [][DashboardNext]_vars

\* ---------------------------------------------------------------- consolidation claims
\* The averaged metrics, by kind: f32 fields, and unsigned fields that are
\* averaged as f32 and rounded at the end.
FloatMetrics == {"one_minute", "five_minutes", "fifteen_minutes", "aggregate", "temp"}
SocketMetrics == {"tcp_in_use", "tcp_orphaned", "udp_in_use", "tcp6_in_use", "udp6_in_use"}
IntMetrics == {"used_mb"} \cup SocketMetrics

\* The value of metric m in snapshot st: None when unavailable
FloatIn(m, st) ==
    CASE m = "one_minute" ->
            IF IsSome(st.general.load_averages)
            THEN Some(Unwrap(st.general.load_averages).one_minute) ELSE None
      [] m = "five_minutes" ->
            IF IsSome(st.general.load_averages)
            THEN Some(Unwrap(st.general.load_averages).five_minutes) ELSE None
      [] m = "fifteen_minutes" ->
            IF IsSome(st.general.load_averages)
            THEN Some(Unwrap(st.general.load_averages).fifteen_minutes) ELSE None
      [] m = "aggregate" -> st.cpu.aggregate_load_percent
      [] m = "temp" -> st.cpu.temp_celsius

IntIn(m, st) ==
    IF m = "used_mb"
    THEN IF IsSome(st.memory) THEN Some(Unwrap(st.memory).used_mb) ELSE None
    ELSE IF IsSome(st.network.sockets) THEN Some(Unwrap(st.network.sockets)[m]) ELSE None

\* The integer an f32 of the profiles stands for (they are whole numbers)
Whole(a) == a[1] * Pow2(a[2])

\* An f32 in units of 2^-16, rounded down
Fixed(a) ==
    IF a[2] >= -16 THEN a[1] * Pow2(a[2] + 16)
    ELSE IF a[2] < -46 THEN (IF a[1] < 0 THEN -1 ELSE 0)
    ELSE (a[1] - (a[1] % Pow2(-16 - a[2]))) \div Pow2(-16 - a[2])

RECURSIVE SumSeq(_)
SumSeq(q) == IF q = <<>> THEN 0 ELSE Head(q) + SumSeq(Tail(q))

\* The sum of the values in a sequence of Option<integer>, None counting 0
SumPresent(q) == SumSeq([i \in 1..Len(q) |-> IF IsSome(q[i]) THEN Unwrap(q[i]) ELSE 0])

AllPresent(q) == \A i \in 1..Len(q) : IsSome(q[i])

\* The f32 r is sum / n up to single-precision rounding error: within 2^-15
CloseToMean(r, sum, n) == Abs(Fixed(r) * n - sum * Pow2(16)) <= 2 * n

\* The integer r is a nearest integer to sum / n
NearestToMean(r, sum, n) == Abs(2 * n * r - 2 * sum) <= n

\* sum / n rounded to the nearest integer, halves up
RoundHalfUp(sum, n) == (2 * sum + n) \div (2 * n)

\* Metric m over the batch, as Option<integer>
FloatColumn(m) ==
    [i \in 1..Len(recent_stats) |->
        IF IsSome(FloatIn(m, recent_stats[i]))
        THEN Some(Whole(Unwrap(FloatIn(m, recent_stats[i])))) ELSE None]

IntColumn(m) == [i \in 1..Len(recent_stats) |-> IntIn(m, recent_stats[i])]

\* Core k over the batch: None where the entry has no per-core list or a
\* list shorter than k
CoreColumn(k) ==
    [i \in 1..Len(recent_stats) |->
        LET pl == recent_stats[i].cpu.per_logical_cpu_load_percent
        IN  IF IsSome(pl) /\ k <= Len(Unwrap(pl)) THEN Some(Whole(Unwrap(pl)[k])) ELSE None]

CoreLists ==
    [i \in 1..Len(recent_stats) |-> recent_stats[i].cpu.per_logical_cpu_load_percent]

Returned == Unwrap(consolidated_stats)
ReturnedCores == Unwrap(Returned.cpu.per_logical_cpu_load_percent)

Uniform(q) == \A i \in 1..Len(q) : q[i] = q[1]

RECURSIVE MaxPresent(_)
MaxPresent(q) ==
    IF q = <<>> THEN 0
    ELSE IF IsSome(Head(q)) THEN Max(Unwrap(Head(q)), MaxPresent(Tail(q)))
    ELSE MaxPresent(Tail(q))

TotalColumn ==
    [i \in 1..Len(recent_stats) |->
        IF IsSome(recent_stats[i].memory)
        THEN Some(Unwrap(recent_stats[i].memory).total_mb) ELSE None]

CoreWidths ==
    [i \in 1..Len(recent_stats) |->
        IF IsSome(CoreLists[i]) THEN Some(Len(Unwrap(CoreLists[i]))) ELSE None]

\* C14: for a batch in which an averaged metric is present in every entry,
\* the returned value is the arithmetic mean of the metric over the batch, up
\* to single-precision rounding for the f32 fields and rounded to a nearest
\* integer for memory used and the socket counts; per-core loads of equal
\* width are averaged core by core; when every entry carries the same value
\* the returned value is exactly that value.
C14_MeanOverTheBatch ==
    pc = "done" =>
        LET n == Len(recent_stats)
        IN  /\ \A m \in FloatMetrics :
                  AllPresent(FloatColumn(m)) =>
                      /\ CloseToMean(Unwrap(FloatIn(m, Returned)),
                                     SumPresent(FloatColumn(m)), n)
                      /\ Uniform(FloatColumn(m)) =>
                            FloatIn(m, Returned) = FloatIn(m, recent_stats[1])
            /\ \A m \in IntMetrics :
                  AllPresent(IntColumn(m)) =>
                      /\ NearestToMean(Unwrap(IntIn(m, Returned)),
                                       SumPresent(IntColumn(m)), n)
                      /\ Uniform(IntColumn(m)) =>
                            IntIn(m, Returned) = IntIn(m, recent_stats[1])
            /\ (AllPresent(CoreLists) /\ Uniform(CoreWidths)) =>
                  /\ Len(ReturnedCores) = Unwrap(CoreWidths[1])
                  /\ \A k \in 1..Len(ReturnedCores) :
                        /\ CloseToMean(ReturnedCores[k], SumPresent(CoreColumn(k)), n)
                        /\ Uniform(CoreColumn(k)) =>
                              ReturnedCores[k] = Unwrap(CoreLists[1])[k]

\* Three entries with every metric present, different values, and a mean
\* that is not a whole number.
C14_Witness ==
    /\ pc = "done"
    /\ Len(recent_stats) = 3
    /\ \A m \in FloatMetrics : AllPresent(FloatColumn(m))
    /\ \A m \in IntMetrics : AllPresent(IntColumn(m))
    /\ ~Uniform(FloatColumn("one_minute"))
    /\ ~Uniform(IntColumn("tcp_in_use"))
    /\ Unwrap(FloatIn("one_minute", Returned))[2] < 0
    /\ SumPresent(IntColumn("used_mb")) % 3 # 0

\* C15: an absent sample counts as a zero: whatever the positions of the
\* entries a metric is absent from, the returned value is the sum of the
\* present values divided by the length of the batch.
C15_AbsentCountsAsZero ==
    pc = "done" =>
        LET n == Len(recent_stats)
        IN  /\ \A m \in FloatMetrics :
                  CloseToMean(Unwrap(FloatIn(m, Returned)), SumPresent(FloatColumn(m)), n)
            /\ \A m \in IntMetrics :
                  NearestToMean(Unwrap(IntIn(m, Returned)), SumPresent(IntColumn(m)), n)

\* C16: the returned memory total is the maximum of the totals of the batch,
\* so at least every entry's total, while memory used is averaged: the batch
\* [{used 10, total 100}, {used 20, total 50}] returns used 15, total 100.
C16_TotalIsMaxUsedIsMean ==
    pc = "done" =>
        LET n == Len(recent_stats)
            mem == Unwrap(Returned.memory)
        IN  /\ mem.total_mb = MaxPresent(TotalColumn)
            /\ \A i \in 1..n : IsSome(TotalColumn[i]) => mem.total_mb >= Unwrap(TotalColumn[i])
            /\ AllPresent(IntColumn("used_mb")) =>
                  NearestToMean(mem.used_mb, SumPresent(IntColumn("used_mb")), n)
            /\ (/\ n = 2
                /\ recent_stats[1].memory = Some([used_mb |-> 10, total_mb |-> 100])
                /\ recent_stats[2].memory = Some([used_mb |-> 20, total_mb |-> 50])) =>
                  mem = [used_mb |-> 15, total_mb |-> 100]

C16_Witness ==
    /\ pc = "done"
    /\ Len(recent_stats) = 2
    /\ recent_stats[1].memory = Some([used_mb |-> 10, total_mb |-> 100])
    /\ recent_stats[2].memory = Some([used_mb |-> 20, total_mb |-> 50])
    /\ Returned.memory = Some([used_mb |-> 15, total_mb |-> 100])

\* C17: each returned socket count is the average over the batch rounded to
\* the nearest integer, halves up; tcp counts 1 and 2 return 2.
C17_SocketsRoundHalfUp ==
    pc = "done" =>
        \A m \in SocketMetrics :
            AllPresent(IntColumn(m)) =>
                IntIn(m, Returned) =
                    Some(RoundHalfUp(SumPresent(IntColumn(m)), Len(recent_stats)))

\* C18: uptime, boot timestamp, collection time, filesystems and network
\* interfaces of the returned snapshot are those of the last entry of the
\* batch, None included.
C18_VerbatimFromLast ==
    pc = "done" =>
        LET last == recent_stats[Len(recent_stats)]
        IN  /\ Returned.general.uptime_seconds = last.general.uptime_seconds
            /\ Returned.general.boot_timestamp = last.general.boot_timestamp
            /\ Returned.collection_time = last.collection_time
            /\ Returned.filesystems = last.filesystems
            /\ Returned.network.interfaces = last.network.interfaces

\* The last entry lacks what the first entry has.
C18_Witness ==
    /\ pc = "done"
    /\ Len(recent_stats) >= 2
    /\ IsSome(recent_stats[1].general.uptime_seconds)
    /\ IsSome(recent_stats[1].filesystems)
    /\ recent_stats[Len(recent_stats)].general.uptime_seconds = None
    /\ Returned.general.uptime_seconds = None
    /\ Returned.filesystems = None
    /\ Returned.collection_time = Len(recent_stats)

\* C19: when every entry has a per-core list, the returned list is as long
\* as the longest, and core k is the sum of the values the entries report
\* for it divided by the length of the batch: an entry too short to report
\* core k counts as a zero, wherever it stands in the batch.
C19_MissingCoreCountsAsZero ==
    (pc = "done" /\ AllPresent(CoreLists)) =>
        /\ Len(ReturnedCores) = MaxPresent(CoreWidths)
        /\ \A k \in 1..Len(ReturnedCores) :
              CloseToMean(ReturnedCores[k], SumPresent(CoreColumn(k)), Len(recent_stats))

\* C20: on an empty batch consolidate_all_stats panics and returns nothing.
C20_EmptyBatchPanics ==
    (recent_stats = <<>> /\ pc # "batch") =>
        /\ pc = "panicked"
        /\ consolidated_stats = None

C20_Witness ==
    /\ recent_stats = <<>>
    /\ pc = "panicked"
    /\ consolidated_stats = None

\* ---------------------------------------------------------------- claims on the log
\* The calls of persist_stats so far all completed (the last may be running)
NoStops == \A k \in 1..Len(ops) : ops[k].result # "Stopped"

HalfLimit == persistence_config.size_limit \div 2

\* The call found "current" present and at least half the limit long
FoundFull(op) ==
    /\ IsSome(op.before.current)
    /\ FileLen(Unwrap(op.before.current)) >= HalfLimit

Rotations == Cardinality({k \in 1..Len(ops) : FoundFull(ops[k])})

ContentsOf(file) == IF IsSome(file) THEN Unwrap(file) ELSE <<>>

IsSuffix(s, t) == Len(s) <= Len(t) /\ s = SubSeq(t, Len(t) - Len(s) + 1, Len(t))

\* C21: a completed persist_stats has rotated exactly when it found "current"
\* present with a size >= size_limit / 2: then "old" is what "current" was
\* and "current" is the one new line; otherwise "old" is untouched and
\* "current" is what it was followed by the new line.
C21_RotatesIffHalfFull ==
    (pc = "idle" /\ ops # <<>> /\ LastOp.result = "Ok") =>
        LET line == <<to_string(LastOp.arg), Newline>>
        IN  IF FoundFull(LastOp)
            THEN /\ disk.old = LastOp.before.current
                 /\ disk.current = Some(line)
            ELSE /\ disk.old = LastOp.before.old
                 /\ disk.current = Some(ContentsOf(LastOp.before.current) \o line)

\* A rotation that discards an earlier "old"
C21_Witness ==
    /\ pc = "idle"
    /\ ops # <<>>
    /\ LastOp.result = "Ok"
    /\ FoundFull(LastOp)
    /\ IsSome(LastOp.before.old)
    /\ LastOp.before.old # LastOp.before.current
    /\ disk.old = LastOp.before.current
    /\ Len(Unwrap(disk.current)) = 2

\* The size of the longest record line written so far
RECURSIVE MaxLineLen(_)
MaxLineLen(o) == IF o = <<>> THEN 0 ELSE Max(LineLen(Head(o).arg), MaxLineLen(Tail(o)))

\* C22: as long as every persist_stats completes, neither file is longer
\* than size_limit / 2 plus one record line.
C22_FilesStayBounded ==
    NoStops =>
        /\ FileLen(ContentsOf(disk.current)) <= HalfLimit + MaxLineLen(ops)
        /\ FileLen(ContentsOf(disk.old)) <= HalfLimit + MaxLineLen(ops)

\* Both files exceed half the limit after three completed appends
C22_Witness ==
    /\ NoStops
    /\ pc = "idle"
    /\ Len(ops) = 3
    /\ FileLen(ContentsOf(disk.old)) > HalfLimit
    /\ FileLen(ContentsOf(disk.current)) > HalfLimit

\* C23: after completed appends into an empty directory, load_from succeeds
\* and returns, in the order of the appends, a suffix of the appended
\* records, and all of them when at most one rotation took place.
C23_RoundTrip ==
    (NoStops /\ pc = "idle") =>
        /\ load_from(disk).ok
        /\ LET loaded == Unwrap(load_from(disk).history)
           IN  /\ IsSuffix(loaded.stats, Args(ops))
               /\ ops # <<>> => loaded.stats # <<>>
               /\ Rotations <= 1 => loaded.stats = Args(ops)

\* Three appends, one rotation, three records loaded
C23_Witness ==
    /\ NoStops
    /\ pc = "idle"
    /\ Len(ops) = 3
    /\ Rotations = 1
    /\ IsSome(disk.old)
    /\ Unwrap(load_from(disk).history).stats = Args(ops)
    /\ Args(ops)[1] # Args(ops)[2]

\* The lines of both files that are not blank, "old" first, trimmed
NotBlank(line) == trim(line) # <<>>
Trimmed(ls) == [k \in 1..Len(ls) |-> trim(ls[k])]
NonBlankLines ==
    Trimmed(SelectSeq(lines(ContentsOf(disk.old)), NotBlank)
            \o SelectSeq(lines(ContentsOf(disk.current)), NotBlank))

\* The line is the JSON text of one record and nothing else
IsRecordLine(line) == Len(line) = 1 /\ line[1].kind = "json"

Malformed == \E k \in 1..Len(NonBlankLines) : ~IsRecordLine(NonBlankLines[k])

\* C24: load_from fails exactly when some non-blank line of "old" or
\* "current" is not a record; it then returns no history and no record.
\* When it succeeds it returns the records of all the non-blank lines, in
\* order: blank lines are passed over.
C24_MalformedLineFailsLoad ==
    reader_pc \in {"loaded", "failed"} =>
        /\ Malformed <=> reader_pc = "failed"
        /\ reader_pc = "failed" =>
              /\ stats_history = StatsHistory_new(1)
              /\ recent_stats = <<>>
        /\ reader_pc = "loaded" =>
              /\ recent_stats =
                    [k \in 1..Len(NonBlankLines) |-> from_json(NonBlankLines[k][1].of)]
              /\ stats_history.stats = recent_stats

\* "old" holds a record, "current" a record and then a line that is not JSON
C24_Witness ==
    /\ reader_pc = "failed"
    /\ disk.old = Some(<<to_string(AllStats_from(ProfileA, 1)), Newline>>)
    /\ disk.current = Some(<<to_string(AllStats_from(ProfileNone, 2)), Newline,
                             Garbage, Newline>>)
    /\ stats_history.stats = <<>>

\* C25: load_from of a log of n >= 1 records returns a history of capacity
\* n whose iteration yields the n records in file order, "old" first, and
\* whose most recent entry is the last record of the log.
C25_LoadedHistory ==
    (reader_pc = "loaded" /\ NonBlankLines # <<>>) =>
        LET n == Len(NonBlankLines)
            records == [k \in 1..n |-> from_json(NonBlankLines[k][1].of)]
        IN  /\ stats_history.max_size = n
            /\ Iterate(stats_history) = [status |-> "ok", items |-> records]
            /\ get_most_recent_stats(stats_history) =
                  [panic |-> FALSE, value |-> Some(records[n])]

\* Records in both files, and a blank line among them
C25_Witness ==
    /\ reader_pc = "loaded"
    /\ Len(NonBlankLines) = 2
    /\ IsSome(disk.old)
    /\ Len(lines(Unwrap(disk.old))) = 1
    /\ Len(lines(ContentsOf(disk.current))) = 2
    /\ stats_history.max_size = 2
    /\ stats_history.stats[1] # stats_history.stats[2]

\* s is t[i..j] for some i and j
IsRun(s, t) == \E i \in 1..(Len(t) + 1) : \E j \in (i - 1)..Len(t) : s = SubSeq(t, i, j)

\* C26: whenever persist_stats is not running, whatever calls were stopped
\* part-way before, load_from succeeds and returns records that were
\* appended, in the order of their appends.
C26_LoadableAfterAnyStop ==
    pc = "idle" =>
        /\ load_from(disk).ok
        /\ LET loaded == Unwrap(load_from(disk).history).stats
           IN  /\ StrictlyIncreasing(Times(loaded))
               /\ \A k \in 1..Len(loaded) : \E n \in 1..Len(ops) : loaded[k] = ops[n].arg

\* C27: a load_from that runs while persist_stats calls complete never takes
\* the lock of the shared history and, when it succeeds, returns a run of
\* consecutive appended records: none missing in the middle, none twice.
C27_ConcurrentLoadReturnsRun ==
    NoStops =>
        /\ lock = "free"
        /\ locked_history = None
        /\ reader_pc = "loaded" => IsRun(recent_stats, Args(ops))

\* ---------------------------------------------------------------- claims on the update thread, continued
NonDecreasing(t) == \A k \in 1..(Len(t) - 1) : t[k] <= t[k + 1]

\* C28: with samples stamped in the order they are taken, the entries of the
\* shared history, oldest first, have non-decreasing collection times at
\* every moment, consolidated records and the live entry included.
C28_HistoryTimesNonDecreasing ==
    NonDecreasing(Times(Chrono(stats_history)))

\* The ring has wrapped around and holds a consolidated record followed by
\* the raw sample of the same collection time
C28_Witness ==
    /\ pc = "sleep"
    /\ consolidation_limit = 2
    /\ ticks = 3
    /\ stats_history.max_size = 2
    /\ Len(stats_history.stats) = 2
    /\ stats_history.most_recent_index = 0
    /\ Times(Chrono(stats_history)) = <<4, 4>>
    /\ Chrono(stats_history)[1] # Chrono(stats_history)[2]

\* The records whose JSON text is in the log, "old" first
RECURSIVE TextsIn(_)
TextsIn(chunks) ==
    IF chunks = <<>> THEN <<>>
    ELSE IF Head(chunks).kind = "json"
         THEN <<from_json(Head(chunks).of)>> \o TextsIn(Tail(chunks))
         ELSE TextsIn(Tail(chunks))

Logged(d) == TextsIn(ContentsOf(d.old)) \o TextsIn(ContentsOf(d.current))

\* The order of the steps of one iteration
StepOrder ==
    {<<"sample", "buffer">>, <<"buffer", "consolidate">>, <<"buffer", "lock_live">>,
     <<"consolidate", "persist">>, <<"consolidate", "lock_commit">>,
     <<"persist", "lock_commit">>, <<"lock_commit", "replace_consolidated">>,
     <<"replace_consolidated", "push_new">>, <<"push_new", "unlock_commit">>,
     <<"unlock_commit", "reset">>, <<"reset", "sleep">>, <<"lock_live", "replace_live">>,
     <<"replace_live", "unlock_live">>, <<"unlock_live", "sleep">>, <<"sleep", "sample">>}

\* C30: the steps of an iteration follow one another in the order sample,
\* buffer, consolidate, persist, commit.  The record handed to persist_stats
\* is the consolidation of the full batch; nothing of the iteration is in
\* the shared history before persist_stats has returned, and the history
\* changes only inside the commit steps.  The log changes only in the
\* persist step, by at most the text of that consolidated record, and its
\* records are in the order of their consolidation.
C30_StepsInOrder ==
    /\ [](/\ pc = "persist" =>
              /\ persistence_config.enabled
              /\ Len(recent_stats) = consolidation_limit
              /\ consolidated_stats = Some(consolidate_all_stats(recent_stats))
          /\ pc \in {"buffer", "consolidate", "persist", "lock_commit"} =>
              \A k \in 1..Len(stats_history.stats) :
                  stats_history.stats[k].collection_time < Unwrap(new_stats).collection_time
          /\ StrictlyIncreasing(Times(Logged(disk)))
          /\ \A k \in 1..Len(Logged(disk)) :
                Logged(disk)[k].collection_time % consolidation_limit = 0)
    /\ [][/\ pc' # pc => <<pc, pc'>> \in StepOrder
          /\ stats_history' # stats_history =>
                pc \in {"replace_consolidated", "push_new", "replace_live"}
          /\ (stats_history' # stats_history /\ pc = "replace_consolidated") =>
                get_most_recent_stats(stats_history').value = consolidated_stats
          /\ disk' # disk =>
                /\ pc = "persist"
                /\ \/ IsSuffix(Logged(disk'), Logged(disk))
                   \/ IsSuffix(Logged(disk'),
                               Logged(disk) \o <<Unwrap(consolidated_stats)>>)]_vars

\* The second consolidated record has reached the log and is not yet in the
\* shared history
C30_Witness ==
    /\ pc = "lock_commit"
    /\ persistence_config.enabled
    /\ consolidation_limit = 2
    /\ Len(samples) = 4
    /\ Len(Logged(disk)) = 2
    /\ Logged(disk)[2] = Unwrap(consolidated_stats)
    /\ Unwrap(consolidated_stats) # Unwrap(new_stats)
    /\ \A k \in 1..Len(stats_history.stats) :
          stats_history.stats[k] # Unwrap(consolidated_stats)

\* C29: the update thread never ends: under fair scheduling, whatever
\* persist_stats returns, every sample taken becomes the most recent entry
\* of the shared history before the iteration sleeps, and every iteration
\* that has reached its sleep is followed by the next one.
C29_LoopNeverEnds ==
    /\ [](pc # "panicked")
    /\ (pc = "buffer") ~>
          (pc = "sleep" /\ get_most_recent_stats(stats_history).value = new_stats)
    /\ (pc = "sleep") ~> (pc = "sample")

\* ---------------------------------------------------------------- claims on the batch buffer
\* The samples taken so far that have been pushed to recent_stats
Buffered == IF pc = "buffer" THEN Len(samples) - 1 ELSE Len(samples)

\* The steps between the threshold test and the reset of the buffer
Flushing == pc \in {"consolidate", "persist", "lock_commit", "replace_consolidated",
                    "push_new", "unlock_commit", "reset"}

\* The samples pushed since the last flush
SinceFlush ==
    IF Flushing
    THEN SubSeq(samples, Buffered - consolidation_limit + 1, Buffered)
    ELSE SubSeq(samples, consolidation_limit * (Buffered \div consolidation_limit) + 1,
                Buffered)

\* C31: the buffer holds the samples taken since the last flush and nothing
\* else, so the batches are the consecutive runs of consolidation_limit
\* samples and every sample is in exactly one of them; consolidate_all_stats
\* is called on exactly consolidation_limit samples, never on none; after
\* every completed iteration the buffer holds fewer than consolidation_limit
\* samples, and none right after a flush.
C31_BatchBuffer ==
    /\ recent_stats = SinceFlush
    /\ Flushing =>
          /\ Len(recent_stats) = consolidation_limit
          /\ recent_stats # <<>>
          /\ Buffered % consolidation_limit = 0
    /\ pc \in {"sleep", "sample"} => Len(recent_stats) < consolidation_limit
    /\ (pc = "sleep" /\ Len(samples) % consolidation_limit = 0) => recent_stats = <<>>

\* The second batch of two samples is about to be consolidated
C31_Witness ==
    /\ pc = "consolidate"
    /\ consolidation_limit = 2
    /\ Len(samples) = 4
    /\ recent_stats = <<samples[3], samples[4]>>
    /\ samples[3].general # samples[4].general

\* The samples of batch number j
BatchOf(j) == SubSeq(samples, (j - 1) * consolidation_limit + 1, j * consolidation_limit)

\* C32: after k >= 1 completed iterations the history holds
\* min(max_size, k \div consolidation_limit + 1) entries; the most recent
\* one is the sample of iteration k and the others are the consolidated
\* records of the latest full batches, oldest first.
C32_HistoryAfterTicks ==
    pc = "sleep" =>
        LET k == Len(samples)
            flushed == k \div consolidation_limit
            n == Len(stats_history.stats)
            chrono == Chrono(stats_history)
        IN  /\ n = Min(stats_history.max_size, flushed + 1)
            /\ get_most_recent_stats(stats_history).value = Some(samples[k])
            /\ chrono[n] = samples[k]
            /\ \A i \in 1..(n - 1) :
                  chrono[i] = consolidate_all_stats(BatchOf(flushed - (n - 1) + i))

\* Four iterations with batches of two in a history of three slots: two
\* consolidated records and the live sample
C32_Witness ==
    /\ pc = "sleep"
    /\ consolidation_limit = 2
    /\ stats_history.max_size = 3
    /\ Len(samples) = 4
    /\ Len(stats_history.stats) = 3
    /\ Chrono(stats_history)[3] = samples[4]
    /\ Chrono(stats_history)[2] # samples[4]
    /\ Chrono(stats_history)[1] # Chrono(stats_history)[2]

\* ---------------------------------------------------------------- consolidation claims, continued
\* No entry of the batch has a value in the column
NeverPresent(q) == \A i \in 1..Len(q) : ~IsSome(q[i])

\* C33: the snapshot consolidate_all_stats returns has load averages,
\* per-core loads, aggregate load, temperature, memory and socket counts
\* present whatever the batch holds; a metric that no entry of the batch has
\* is returned as zero, the per-core list as the empty list.
C33_AveragedMetricsAlwaysPresent ==
    pc = "done" =>
        /\ IsSome(Returned.general.load_averages)
        /\ IsSome(Returned.cpu.per_logical_cpu_load_percent)
        /\ IsSome(Returned.cpu.aggregate_load_percent)
        /\ IsSome(Returned.cpu.temp_celsius)
        /\ IsSome(Returned.memory)
        /\ IsSome(Returned.network.sockets)
        /\ \A m \in FloatMetrics :
              NeverPresent(FloatColumn(m)) => FloatIn(m, Returned) = Some(F(0))
        /\ \A m \in IntMetrics :
              NeverPresent(IntColumn(m)) => IntIn(m, Returned) = Some(0)
        /\ NeverPresent(IntColumn("used_mb")) => Unwrap(Returned.memory).total_mb = 0
        /\ NeverPresent(CoreLists) => ReturnedCores = <<>>

\* A batch of two entries with no metric at all
C33_Witness ==
    /\ pc = "done"
    /\ Len(recent_stats) = 2
    /\ \A m \in FloatMetrics : NeverPresent(FloatColumn(m))
    /\ \A m \in IntMetrics : NeverPresent(IntColumn(m))
    /\ NeverPresent(CoreLists)
    /\ Returned.cpu.temp_celsius = Some(F(0))
    /\ Returned.memory = Some([used_mb |-> 0, total_mb |-> 0])
    /\ ReturnedCores = <<>>

\* ---------------------------------------------------------------- claims on load_from, continued
\* C34: load_from of a directory whose two files are missing or hold only
\* blank lines succeeds and returns the empty history of capacity 1, whose
\* most recent entry is None.
C34_EmptyLogLoadsEmptyHistory ==
    (reader_pc \in {"loaded", "failed"} /\ NonBlankLines = <<>>) =>
        /\ reader_pc = "loaded"
        /\ load_from(disk) = [ok |-> TRUE, history |-> Some(StatsHistory_new(1))]
        /\ stats_history.max_size = 1
        /\ stats_history.stats = <<>>
        /\ get_most_recent_stats(stats_history) = [panic |-> FALSE, value |-> None]

\* "old" is missing and "current" holds an empty line and a line of whitespace
C34_Witness ==
    /\ reader_pc = "loaded"
    /\ disk.old = None
    /\ disk.current = Some(<<Newline, Space, Newline>>)
    /\ stats_history = StatsHistory_new(1)

\* ---------------------------------------------------------------- claims on the dashboard context
\* C35: from_history of an empty history returns the context without data:
\* no charts, the one section "no data", last update time "N/A".  It returns
\* it without iterating the history, whose iteration panics when empty.
C35_EmptyHistoryGivesNoData ==
    (/\ reader_pc \in {"from_history_returned", "from_history_panicked"}
     /\ stats_history.stats = <<>>) =>
        /\ Iterate(stats_history).status = "panic"
        /\ reader_pc = "from_history_returned"
        /\ \E dark_mode \in BOOLEAN : reader_view = Some(NoDataContext(dark_mode))
        /\ Unwrap(reader_view).charts = <<>>
        /\ Unwrap(reader_view).last_update_time = "N/A"

C35_Witness ==
    /\ reader_pc = "from_history_returned"
    /\ stats_history = StatsHistory_new(2)
    /\ reader_view = Some(NoDataContext(TRUE))

\* C36: build_cpu_charts of a history that is not empty returns, whatever
\* the per-core lists of the entries are, and every dataset of its charts
\* has one value per entry of the history, as many as there are x_values.
C36_CpuChartsAligned ==
    (/\ reader_pc \in {"build_cpu_charts_returned", "build_cpu_charts_panicked"}
     /\ stats_history.stats # <<>>) =>
        /\ reader_pc = "build_cpu_charts_returned"
        /\ \A c \in 1..Len(Unwrap(reader_view)) :
              LET chart == Unwrap(reader_view)[c]
              IN  /\ Len(chart.x_values) = Len(stats_history.stats)
                  /\ \A d \in 1..Len(chart.datasets) :
                        Len(chart.datasets[d].values) = Len(chart.x_values)

=============================================================================
